---- MODULE Spec2Model ----
(***************************************************************************)
(* Model of scss-import-watcher: the watcher core of src/index.js          *)
(* (scssImportWatcher: discovery, marker region rewrite and removal,       *)
(* debounced reactive update, pause/resume/close) and the watcher          *)
(* management flows of the command line front-end (create, edit, delete).  *)
(*                                                                         *)
(* Text representation.  A file content is the list of its lines, as       *)
(* content.split('\n') returns it; a line is a sequence of fragments       *)
(* (strings that never hold a newline), the empty sequence being the empty *)
(* line.  line.includes(marker) is "some fragment is the marker".  A       *)
(* content as one string is the sequence of its fragments with NL between  *)
(* the lines, so that join('\n'), the newline regex and split('\n') are    *)
(* computed on that sequence.                                              *)
(*                                                                         *)
(* Paths are sequences of directory names relative to rootDir; a file is a *)
(* record of its directory and of its name, the name being split in the    *)
(* pieces the code looks at (leading "_", stem, ".scss").                  *)
(***************************************************************************)
EXTENDS Integers, Sequences, FiniteSets, TLC

\* ------------------------------------------------------------------------
\* Bounds of the model
\* ------------------------------------------------------------------------

\* longest initial target file, in chunks (a blank line, a rule, a region,
\* ...), of the specification of the text operations
MaxInitChunks == 3

\* largest 1-indexed insertion line a watcher is configured with
MaxLine == 2

\* longest target file, in lines, that an update may still make longer
MaxFileLines == 9

\* number of text operations applied in a row to one initial target file
MaxOps == 2

\* calls of the debounced function the timed specification lets happen
MaxEvents == 3

\* ------------------------------------------------------------------------
\* Generic sequence helpers (JavaScript array semantics)
\* ------------------------------------------------------------------------

Min(a, b) == IF a < b THEN a ELSE b

Max(a, b) == IF a > b THEN a ELSE b

\* lines.slice(0, n), n a 0-based index, negative n counting from the end
SliceTo(s, n) ==
  LET e == IF n < 0 THEN Max(Len(s) + n, 0) ELSE Min(n, Len(s))
  IN SubSeq(s, 1, e)

\* lines.slice(n), n a 0-based index, negative n counting from the end
SliceFrom(s, n) ==
  LET b == IF n < 0 THEN Max(Len(s) + n, 0) ELSE Min(n, Len(s))
  IN SubSeq(s, b + 1, Len(s))

\* p is a prefix of q (path p equals q or is an ancestor of q)
IsPrefix(p, q) == Len(p) <= Len(q) /\ SubSeq(q, 1, Len(p)) = p

RECURSIVE Flatten(_)
\* concatenation of a sequence of sequences
Flatten(ss) == IF ss = <<>> THEN <<>> ELSE Head(ss) \o Flatten(Tail(ss))

\* ------------------------------------------------------------------------
\* Text: lines, markers, join / normalise / split
\* ------------------------------------------------------------------------

NL == "\n"

EmptyLine == <<>>

\* the target file does not exist (a file that exists has one line or more)
NoFile == <<>>

\* const markerStart = `/* ${effectiveMarkerId} import start */`
markerStart(id) == "/* " \o id \o " import start */"

\* const markerEnd = `/* ${effectiveMarkerId} import end */`
markerEnd(id) == "/* " \o id \o " import end */"

\* `${GROUP_MARKER_PREFIX} ${groupKey} ${GROUP_MARKER_SUFFIX}`
GroupHeader(groupKey) == "/* " \o groupKey \o " */"

\* `@import "${importPath}";`
ImportStatement(importPath) == "@import \"" \o importPath \o "\";"

\* line.includes(text), text one of the marker strings
Includes(line, text) == \E i \in 1..Len(line) : line[i] = text

RECURSIVE JoinLines(_)
\* newContentLines.join('\n')
JoinLines(lines) ==
  IF lines = <<>> THEN <<>>
  ELSE IF Len(lines) = 1 THEN lines[1]
  ELSE lines[1] \o <<NL>> \o JoinLines(Tail(lines))

\* number of newline characters at the head of s
RECURSIVE LeadingNewlines(_)
LeadingNewlines(s) ==
  IF s = <<>> \/ Head(s) # NL THEN 0 ELSE 1 + LeadingNewlines(Tail(s))

RECURSIVE CollapseNewlines_fourOrMore(_)
\* Mutant of CollapseNewlines: the pattern is /\n{4,}/g, a run of exactly
\* three newline characters is left as it is.
CollapseNewlines_fourOrMore(s) ==
  IF s = <<>> THEN <<>>
  ELSE IF Head(s) # NL
       THEN <<Head(s)>> \o CollapseNewlines_fourOrMore(Tail(s))
  ELSE LET k == LeadingNewlines(s)
           rest == SubSeq(s, k + 1, Len(s))
       IN (IF k >= 4 THEN <<NL, NL>> ELSE SubSeq(s, 1, k))
          \o CollapseNewlines_fourOrMore(rest)

RECURSIVE CollapseNewlines(_)
\* .replace(/\n{3,}/g, '\n\n'): every maximal run of 3 or more newline
\* characters becomes 2 newline characters
CollapseNewlines(s) ==
  IF s = <<>> THEN <<>>
  ELSE IF Head(s) # NL THEN <<Head(s)>> \o CollapseNewlines(Tail(s))
  ELSE LET k == LeadingNewlines(s)
           rest == SubSeq(s, k + 1, Len(s))
       IN (IF k >= 3 THEN <<NL, NL>> ELSE SubSeq(s, 1, k))
          \o CollapseNewlines(rest)

RECURSIVE SplitLines(_)
\* content.split('\n')
SplitLines(s) ==
  IF \A i \in 1..Len(s) : s[i] # NL THEN <<s>>
  ELSE LET i == CHOOSE j \in 1..Len(s) :
                  s[j] = NL /\ \A k \in 1..(j - 1) : s[k] # NL
       IN <<SubSeq(s, 1, i - 1)>> \o SplitLines(SubSeq(s, i + 1, Len(s)))

\* what a later readFileSync + split('\n') sees of the lines written with
\* join('\n').replace(/\n{3,}/g, '\n\n')
WriteLines(newContentLines) ==
  SplitLines(CollapseNewlines(JoinLines(newContentLines)))

\* the marker ids and group keys that occur in the texts of the model
TextIds == {"a", "b", "d", "x"}

\* Mutant of ScanIndex: the end marker is matched without its owner id, any
\* owner's end marker line counts.
ScanIndex_anyOwnerEnd(lines, text) ==
  LET Hit(line) ==
        \/ Includes(line, text)
        \/ /\ text \in { markerEnd(i) : i \in TextIds }
           /\ \E i \in TextIds : Includes(line, markerEnd(i))
  IN IF \E i \in 1..Len(lines) : Hit(lines[i])
     THEN CHOOSE i \in 1..Len(lines) :
            Hit(lines[i]) /\ \A j \in (i + 1)..Len(lines) : ~Hit(lines[j])
     ELSE 0

\* the marker scan: index of the last line that includes the text, 0 when
\* none does (the loop has no break, so a later match overwrites an earlier)
ScanIndex(lines, text) ==
  IF \E i \in 1..Len(lines) : Includes(lines[i], text)
  THEN CHOOSE i \in 1..Len(lines) :
         /\ Includes(lines[i], text)
         /\ \A j \in (i + 1)..Len(lines) : ~Includes(lines[j], text)
  ELSE 0

\* startIndex !== -1 && endIndex !== -1 && startIndex < endIndex
MarkersFound(lines, id) ==
  LET startIndex == ScanIndex(lines, markerStart(id))
      endIndex == ScanIndex(lines, markerEnd(id))
  IN startIndex # 0 /\ endIndex # 0 /\ startIndex < endIndex

\* ------------------------------------------------------------------------
\* File system: the partials under rootDir, discovery, import derivation
\* ------------------------------------------------------------------------

\* A file of the tree: dir is its directory relative to rootDir, name its
\* name in pieces (one character per piece, the extension as one piece).
File(dir, name) == [dir |-> dir, name |-> name]

\* every file the model lets exist under rootDir
FsUniverse ==
  { File(<<"a">>, <<"_", "p", ".scss">>),
    File(<<"a", "b">>, <<"_", "q", ".scss">>),
    File(<<"a", "b", "d">>, <<"_", "r", ".scss">>),
    File(<<"a">>, <<"m", ".scss">>) }

\* UTF-16 code units of the characters import paths are made of (what the
\* default Array.prototype.sort compares)
CharCode ==
  [c \in {" ", "\"", ".", "/", "1", "_", "a", "b", "c", "d", "m", "p", "q",
          "r", "s", "x"} |->
     CASE c = " " -> 32 [] c = "\"" -> 34 [] c = "." -> 46 [] c = "/" -> 47
       [] c = "1" -> 49
       [] c = "_" -> 95 [] c = "a" -> 97 [] c = "b" -> 98 [] c = "c" -> 99
       [] c = "d" -> 100 [] c = "m" -> 109 [] c = "p" -> 112 [] c = "q" -> 113
       [] c = "r" -> 114 [] c = "s" -> 115 [] c = "x" -> 120]

RECURSIVE CharsLess(_, _)
\* s < t for two strings given as character sequences
CharsLess(s, t) ==
  IF t = <<>> THEN FALSE
  ELSE IF s = <<>> THEN TRUE
  ELSE IF CharCode[Head(s)] # CharCode[Head(t)]
       THEN CharCode[Head(s)] < CharCode[Head(t)]
  ELSE CharsLess(Tail(s), Tail(t))

RECURSIVE Text(_)
\* the string made of a character sequence
Text(chars) == IF chars = <<>> THEN "" ELSE Head(chars) \o Text(Tail(chars))

RECURSIVE JoinPath(_)
\* path segments joined with "/"
JoinPath(segs) ==
  IF segs = <<>> THEN <<>>
  ELSE IF Len(segs) = 1 THEN <<segs[1]>>
  ELSE <<segs[1], "/">> \o JoinPath(Tail(segs))

\* the characters of a directory name or of a piece of a path (the names of
\* more than one character are bd and _x)
SegmentChars(seg) ==
  CASE seg = "bd" -> <<"b", "d">>
    [] seg = "_x" -> <<"_", "x">>
    [] seg = "base" -> <<"b", "a", "s", "e">>
    [] OTHER -> <<seg>>

\* a path, given in pieces, as the characters of its string
PathChars(pieces) ==
  Flatten([i \in 1..Len(pieces) |-> SegmentChars(pieces[i])])

\* file.startsWith("_") && file.endsWith(".scss")
IsPartial(f) ==
  Len(f.name) >= 2 /\ f.name[1] = "_" /\ f.name[Len(f.name)] = ".scss"

\* the excludePaths test made on a directory before recursing into it:
\* fullPath === excluded || fullPath.startsWith(excluded + path.sep)
isExcluded(options, fullPath) ==
  \E excludedPath \in options.excludePaths :
    \/ fullPath = excludedPath
    \/ IsPrefix(PathChars(JoinPath(excludedPath)) \o <<"/">>,
                PathChars(JoinPath(fullPath)))

\* the sub-directories of currentDir that the tree contents imply
SubDirs(fs, currentDir) ==
  { SubSeq(f.dir, 1, Len(currentDir) + 1) :
      f \in { g \in fs : IsPrefix(currentDir, g.dir)
                         /\ Len(g.dir) > Len(currentDir) } }

RECURSIVE readDirRecursive(_, _, _)
\* the partials the recursive walk reaches from currentDir
readDirRecursive(fs, options, currentDir) ==
  { f \in fs : f.dir = currentDir /\ IsPartial(f) }
  \cup UNION { readDirRecursive(fs, options, d) :
                 d \in { e \in SubDirs(fs, currentDir) :
                           ~isExcluded(options, e) } }

\* path.relative(watchDir, fullPath), directory part
RelativeDir(options, f) ==
  SubSeq(f.dir, Len(options.watchDir) + 1, Len(f.dir))

\* path.basename(rel, '.scss') with one leading underscore removed
formattedBaseName(f) == SubSeq(f.name, 2, Len(f.name) - 1)

\* path.posix.join(dirName, formattedBaseName) in pieces: the directory
\* names, the separators and the characters of the base name
importPath(options, f) ==
  LET dirName == RelativeDir(options, f)
      base == formattedBaseName(f)
  IN IF dirName = <<>> THEN (IF base = <<>> THEN <<".">> ELSE base)
     ELSE JoinPath(dirName) \o (IF base = <<>> THEN <<>> ELSE <<"/">> \o base)

\* parts.length > 1 ? parts[0] : 'base'
groupKey(options, f) ==
  LET dirName == RelativeDir(options, f)
  IN IF dirName = <<>> THEN "base" ELSE dirName[1]

\* The place of a character in the collation localeCompare uses: the
\* punctuation before the digits, the digits before the letters, the
\* lower-case letters in the order of their code units.
CollationRank(c) ==
  CASE c = "_" -> 1 [] c = "1" -> 2 [] OTHER -> CharCode[c]

RECURSIVE LocaleLess(_, _)
\* s.localeCompare(t) < 0 for two names given as character sequences
LocaleLess(s, t) ==
  IF t = <<>> THEN FALSE
  ELSE IF s = <<>> THEN TRUE
  ELSE IF CollationRank(Head(s)) # CollationRank(Head(t))
       THEN CollationRank(Head(s)) < CollationRank(Head(t))
  ELSE LocaleLess(Tail(s), Tail(t))

\* the comparator of sortedGroupKeys: 'base' first, the others by
\* localeCompare
GroupKeyLess(a, b) ==
  IF a = b THEN FALSE
  ELSE IF a = "base" THEN TRUE
  ELSE IF b = "base" THEN FALSE
  ELSE LocaleLess(SegmentChars(a), SegmentChars(b))

\* the key is an array index (a canonical non-negative integer): an object
\* enumerates such keys before its other keys
IsArrayIndex(key) == key = "1"

\* the order in which `for (const groupKey in sortedCache)` visits the keys
\* that were inserted in the order sortedGroupKeys: the array indices
\* first, then the other keys in insertion order
ObjectKeys(inserted) ==
  SelectSeq(inserted, IsArrayIndex)
  \o SelectSeq(inserted, LAMBDA key : ~IsArrayIndex(key))

\* order of two `@import "<path>";` strings under the default sort
StatementLess(p1, p2) ==
  CharsLess(PathChars(p1) \o <<"\"">>, PathChars(p2) \o <<"\"">>)

\* Object.keys(cache).sort(comparator): the group keys as a sorted sequence
SortedGroupKeys(keys) ==
  CHOOSE seq \in [1..Cardinality(keys) -> keys] :
    /\ \A x \in keys : \E i \in 1..Cardinality(keys) : seq[i] = x
    /\ \A i, j \in 1..Cardinality(keys) :
         i < j => ~GroupKeyLess(seq[j], seq[i])

\* cache[groupKey].sort(): the import paths of a group as a sorted sequence
SortedStatements(S) ==
  CHOOSE seq \in [1..Cardinality(S) -> S] :
    /\ \A x \in S : \E i \in 1..Cardinality(S) : seq[i] = x
    /\ \A i, j \in 1..Cardinality(S) :
         i < j => ~StatementLess(seq[j], seq[i])

\* The cache generateImports leaves behind: the groups in the order in which
\* the sorted cache object enumerates its keys, each with its sorted import
\* statements.
DiscoverCache(fs, options) ==
  LET found == readDirRecursive(fs, options, options.watchDir)
      keys == { groupKey(options, f) : f \in found }
      sortedGroupKeys == ObjectKeys(SortedGroupKeys(keys))
      paths(k) == { importPath(options, f) :
                      f \in { g \in found : groupKey(options, g) = k } }
      sorted(k) == SortedStatements(paths(k))
  IN [i \in 1..Len(sortedGroupKeys) |->
        [key |-> sortedGroupKeys[i],
         imports |-> [j \in 1..Len(sorted(sortedGroupKeys[i])) |->
                        ImportStatement(Text(sorted(sortedGroupKeys[i])[j]))]]]

\* generateImports(): returns the cache unchanged while the watcher is paused
generateImports(isActive, cache, fs, options) ==
  IF ~isActive THEN cache ELSE DiscoverCache(fs, options)

\* a dangling symbolic link in directory a: fs.statSync(fullPath) throws
BrokenLink == File(<<"a">>, <<"l">>)

\* fs.statSync throws on the entry
StatThrows(f) == f = BrokenLink

RECURSIVE walkThrows(_, _, _)
\* the recursive walk from currentDir reaches an entry fs.statSync throws on
walkThrows(fs, options, currentDir) ==
  \/ \E f \in fs : f.dir = currentDir /\ StatThrows(f)
  \/ \E d \in { e \in SubDirs(fs, currentDir) : ~isExcluded(options, e) } :
       walkThrows(fs, options, d)

\* generateImports() ends with the exception of fs.statSync: the function
\* has no try/catch
generateImportsThrows(isActive, fs, options) ==
  isActive /\ walkThrows(fs, options, options.watchDir)

\* The caches generateImports can leave behind when it throws: the cache was
\* reset and holds the partials the walk had seen by then.
ThrownCaches(fs, options) ==
  { DiscoverCache(seen, options) :
      seen \in SUBSET { f \in fs : ~StatThrows(f) } }

\* newImportsContent as the lines it occupies once joined into the file:
\* per group a heading line and the import statements; "" (one empty line)
\* when the cache is empty
newImportsContent(cache) ==
  IF cache = <<>> THEN <<EmptyLine>>
  ELSE Flatten([i \in 1..Len(cache) |->
         <<<<GroupHeader(cache[i].key)>>>>
         \o [j \in 1..Len(cache[i].imports) |-> <<cache[i].imports[j]>>]])

\* ------------------------------------------------------------------------
\* Marker region rewrite and removal
\* ------------------------------------------------------------------------

\* options.markerId || path.basename(options.watchDir)
effectiveMarkerId(options) ==
  IF options.markerId # "" THEN options.markerId
  ELSE IF options.watchDir = <<>> THEN ""
  ELSE options.watchDir[Len(options.watchDir)]

\* Mutant of updateStylesFile: the replacement keeps the lines after the end
\* marker only (lines.slice(endIndex + 1)), so the end marker is lost.
updateStylesFile_dropsEndMarker(lines, options, cache) ==
  LET id == effectiveMarkerId(options)
      startIndex == ScanIndex(lines, markerStart(id))
      endIndex == ScanIndex(lines, markerEnd(id))
      insertionLine == Min(options.line - 1, Len(lines))
      newContentLines ==
        IF startIndex # 0 /\ endIndex # 0 /\ startIndex < endIndex
        THEN SubSeq(lines, 1, startIndex)
             \o newImportsContent(cache)
             \o SubSeq(lines, endIndex + 1, Len(lines))
        ELSE SliceTo(lines, insertionLine)
             \o <<<<markerStart(id)>>>>
             \o newImportsContent(cache)
             \o <<<<markerEnd(id)>>>>
             \o SliceFrom(lines, insertionLine)
  IN WriteLines(newContentLines)

\* Mutant of updateStylesFile: the lines up to the end marker are kept
\* (lines.slice(0, endIndex)), so the new body is added below the old one.
updateStylesFile_keepsOldBody(lines, options, cache) ==
  LET id == effectiveMarkerId(options)
      startIndex == ScanIndex(lines, markerStart(id))
      endIndex == ScanIndex(lines, markerEnd(id))
      insertionLine == Min(options.line - 1, Len(lines))
      newContentLines ==
        IF startIndex # 0 /\ endIndex # 0 /\ startIndex < endIndex
        THEN SubSeq(lines, 1, endIndex - 1)
             \o newImportsContent(cache)
             \o SubSeq(lines, endIndex, Len(lines))
        ELSE SliceTo(lines, insertionLine)
             \o <<<<markerStart(id)>>>>
             \o newImportsContent(cache)
             \o <<<<markerEnd(id)>>>>
             \o SliceFrom(lines, insertionLine)
  IN WriteLines(newContentLines)

\* Mutant of updateStylesFile: the lines below a new block are taken with
\* lines.slice(insertionLine + 1), so the block overwrites a line.
updateStylesFile_overwritesLine(lines, options, cache) ==
  LET id == effectiveMarkerId(options)
      startIndex == ScanIndex(lines, markerStart(id))
      endIndex == ScanIndex(lines, markerEnd(id))
      insertionLine == Min(options.line - 1, Len(lines))
      newContentLines ==
        IF startIndex # 0 /\ endIndex # 0 /\ startIndex < endIndex
        THEN SubSeq(lines, 1, startIndex)
             \o newImportsContent(cache)
             \o SubSeq(lines, endIndex, Len(lines))
        ELSE SliceTo(lines, insertionLine)
             \o <<<<markerStart(id)>>>>
             \o newImportsContent(cache)
             \o <<<<markerEnd(id)>>>>
             \o SliceFrom(lines, insertionLine + 1)
  IN WriteLines(newContentLines)

\* Mutant of updateStylesFile: when the block is inserted, the lines of the
\* file that are import statements of the cache are taken out (re-homed).
updateStylesFile_rehomes(lines, options, cache) ==
  LET id == effectiveMarkerId(options)
      startIndex == ScanIndex(lines, markerStart(id))
      endIndex == ScanIndex(lines, markerEnd(id))
      insertLine == options.line - 1
      insertionLine == Min(insertLine, Len(lines))
      owned == UNION { { <<cache[i].imports[j]>> :
                           j \in 1..Len(cache[i].imports) } :
                         i \in 1..Len(cache) }
      NotOwned(line) == line \notin owned
      newContentLines ==
        IF startIndex # 0 /\ endIndex # 0 /\ startIndex < endIndex
        THEN SubSeq(lines, 1, startIndex)
             \o newImportsContent(cache)
             \o SubSeq(lines, endIndex, Len(lines))
        ELSE SelectSeq(SliceTo(lines, insertionLine), NotOwned)
             \o <<<<markerStart(id)>>>>
             \o newImportsContent(cache)
             \o <<<<markerEnd(id)>>>>
             \o SelectSeq(SliceFrom(lines, insertionLine), NotOwned)
  IN IF lines = NoFile THEN NoFile ELSE WriteLines(newContentLines)

\* Mutant of updateStylesFile: no fs.existsSync test, a missing file is read
\* as an empty one and written.
updateStylesFile_createsFile(lines, options, cache) ==
  LET read == IF lines = NoFile THEN <<EmptyLine>> ELSE lines
      id == effectiveMarkerId(options)
      startIndex == ScanIndex(read, markerStart(id))
      endIndex == ScanIndex(read, markerEnd(id))
      insertLine == options.line - 1
      insertionLine == Min(insertLine, Len(read))
      newContentLines ==
        IF startIndex # 0 /\ endIndex # 0 /\ startIndex < endIndex
        THEN SubSeq(read, 1, startIndex)
             \o newImportsContent(cache)
             \o SubSeq(read, endIndex, Len(read))
        ELSE SliceTo(read, insertionLine)
             \o <<<<markerStart(id)>>>>
             \o newImportsContent(cache)
             \o <<<<markerEnd(id)>>>>
             \o SliceFrom(read, insertionLine)
  IN WriteLines(newContentLines)

\* the lines updateStylesFile leaves in the file, given the lines it read;
\* a file that does not exist is left alone (fs.existsSync, return)
updateStylesFile(lines, options, cache) ==
  IF lines = NoFile THEN NoFile
  ELSE
       LET id == effectiveMarkerId(options)
           startIndex == ScanIndex(lines, markerStart(id))
           endIndex == ScanIndex(lines, markerEnd(id))
           insertLine == options.line - 1
           insertionLine == Min(insertLine, Len(lines))
           newContentLines ==
             IF startIndex # 0 /\ endIndex # 0 /\ startIndex < endIndex
             THEN SubSeq(lines, 1, startIndex)
                  \o newImportsContent(cache)
                  \o SubSeq(lines, endIndex, Len(lines))
             ELSE SliceTo(lines, insertionLine)
                  \o <<<<markerStart(id)>>>>
                  \o newImportsContent(cache)
                  \o <<<<markerEnd(id)>>>>
                  \o SliceFrom(lines, insertionLine)
       IN WriteLines(newContentLines)

\* fragments that hold a comment opener and closer
CommentFragments ==
  { markerStart(i) : i \in TextIds } \cup { markerEnd(i) : i \in TextIds }
  \cup { GroupHeader(k) : k \in TextIds \cup {"base"} }
  \cup { "/* note */" }

\* line.includes(GROUP_MARKER_PREFIX) && line.includes(GROUP_MARKER_SUFFIX)
IsGroupMarkerLine(line) ==
  \E i \in 1..Len(line) : line[i] \in CommentFragments

\* Mutant of removeMarkers: the lines after the region are taken with
\* lines.slice(endIndex), so the end marker line stays in the file.
removeMarkers_keepsEndMarker(lines, options, deleteImports) ==
  LET id == effectiveMarkerId(options)
      startIndex == ScanIndex(lines, markerStart(id))
      endIndex == ScanIndex(lines, markerEnd(id))
      between == SubSeq(lines, startIndex + 1, endIndex - 1)
      contentBetweenMarkers ==
        SelectSeq(between, LAMBDA line : ~IsGroupMarkerLine(line))
  IN IF startIndex # 0 /\ endIndex # 0 /\ startIndex < endIndex
     THEN WriteLines(SubSeq(lines, 1, startIndex - 1)
                     \o (IF deleteImports THEN <<>> ELSE contentBetweenMarkers)
                     \o SubSeq(lines, endIndex, Len(lines)))
     ELSE lines

\* Mutant of removeMarkers: the deleteImports flag is not looked at, the
\* lines between the markers are always dropped.
removeMarkers_alwaysDeletesBody(lines, options, deleteImports) ==
  LET id == effectiveMarkerId(options)
      startIndex == ScanIndex(lines, markerStart(id))
      endIndex == ScanIndex(lines, markerEnd(id))
  IN IF startIndex # 0 /\ endIndex # 0 /\ startIndex < endIndex
     THEN WriteLines(SubSeq(lines, 1, startIndex - 1)
                     \o SubSeq(lines, endIndex + 1, Len(lines)))
     ELSE lines

\* Mutant of removeMarkers: the order of the two markers is not tested
\* (startIndex < endIndex is missing from the condition).
removeMarkers_ignoresOrder(lines, options, deleteImports) ==
  LET id == effectiveMarkerId(options)
      startIndex == ScanIndex(lines, markerStart(id))
      endIndex == ScanIndex(lines, markerEnd(id))
      between == SubSeq(lines, startIndex + 1, endIndex - 1)
      contentBetweenMarkers ==
        SelectSeq(between, LAMBDA line : ~IsGroupMarkerLine(line))
  IN IF startIndex # 0 /\ endIndex # 0
     THEN WriteLines(SubSeq(lines, 1, startIndex - 1)
                     \o (IF deleteImports THEN <<>> ELSE contentBetweenMarkers)
                     \o SubSeq(lines, endIndex + 1, Len(lines)))
     ELSE lines

\* the lines removeMarkers leaves in the file, given the lines it read
\* (the file is not written when the markers are not found)
removeMarkers(lines, options, deleteImports) ==
  LET id == effectiveMarkerId(options)
      startIndex == ScanIndex(lines, markerStart(id))
      endIndex == ScanIndex(lines, markerEnd(id))
      between == SubSeq(lines, startIndex + 1, endIndex - 1)
      contentBetweenMarkers ==
        SelectSeq(between, LAMBDA line : ~IsGroupMarkerLine(line))
  IN IF startIndex # 0 /\ endIndex # 0 /\ startIndex < endIndex
     THEN WriteLines(SubSeq(lines, 1, startIndex - 1)
                     \o (IF deleteImports THEN <<>> ELSE contentBetweenMarkers)
                     \o SubSeq(lines, endIndex + 1, Len(lines)))
     ELSE lines

\* ------------------------------------------------------------------------
\* State
\* ------------------------------------------------------------------------

WatcherNames == {"w1", "w2"}

VARIABLES
  stylesFile,     \* the lines of the target file (stylesFilePath)
  fs,             \* the files present under rootDir
  options,        \* per name: the options its instance was constructed with
  running,        \* per name: the watchers map holds an instance (a handle)
  _isActive,      \* per instance: not paused
  _currentGroupedImportsCache,  \* per instance: result of the last discovery
  timer,          \* per instance: a debounce timeout is pending
  closed,         \* per instance: watcher.close() was called
  watcherConfigs, \* the configured watchers, in insertion order
  last,           \* the operation that made the last step, and its watcher
  opsLeft,        \* text operations the text-level specification may still apply
  clock           \* per instance: the times the debounce is observed with

vars == <<stylesFile, fs, options, running, _isActive,
          _currentGroupedImportsCache, timer, closed, watcherConfigs, last,
          opsLeft, clock>>

NoOptions ==
  [watchDir |-> <<>>, line |-> 1, markerId |-> "", excludePaths |-> {}]

\* the times of a watcher nothing has happened to: age is the time since its
\* pending timeout was set, idle the time since the last call of its
\* debounced function, calls the calls of the burst (the calls since the
\* pass before the last call), passes the update passes made since the last
\* call
NoClock ==
  [w \in WatcherNames |-> [age |-> 0, idle |-> 0, calls |-> 0, passes |-> 0]]

Op(op, w) == [op |-> op, w |-> w]

\* the call of the operation ended with an exception thrown to its caller
Thrown(op, w) == [op |-> op, w |-> w, error |-> "thrown"]

\* chokidar reports a change of file f to the watcher: f lies under watchDir
\* and under none of the ignored (excluded) paths
Watches(opts, f) ==
  /\ IsPrefix(opts.watchDir, f.dir)
  /\ ~\E ex \in opts.excludePaths : IsPrefix(ex, f.dir)

\* ------------------------------------------------------------------------
\* Operations of one watcher instance
\* ------------------------------------------------------------------------

\* Bound of the model: an update that has to insert a new block (no region
\* found) is only taken while the file is not longer than MaxFileLines.
CanGrow(lines, opts) ==
  MarkersFound(lines, effectiveMarkerId(opts)) \/ Len(lines) <= MaxFileLines

\* _initialUpdate: generateImports(); updateStylesFile(true).  An exception
\* of generateImports ends the call before updateStylesFile.
InitialUpdate(w) ==
  /\ running[w]
  /\ CanGrow(stylesFile, options[w])
  /\ IF generateImportsThrows(_isActive[w], fs, options[w])
     THEN /\ \E cache \in ThrownCaches(fs, options[w]) :
               _currentGroupedImportsCache' =
                 [_currentGroupedImportsCache EXCEPT ![w] = cache]
          /\ stylesFile' = stylesFile
          /\ last' = Thrown("initialUpdate", w)
     ELSE /\ LET cache == generateImports(_isActive[w],
                                          _currentGroupedImportsCache[w],
                                          fs, options[w])
             IN /\ _currentGroupedImportsCache' =
                     [_currentGroupedImportsCache EXCEPT ![w] = cache]
                /\ stylesFile' = updateStylesFile(stylesFile, options[w],
                                                  cache)
          /\ last' = Op("initialUpdate", w)
  /\ UNCHANGED <<fs, options, running, _isActive, timer, closed,
                 watcherConfigs, opsLeft, clock>>

\* _getGeneratedImportPaths: generateImports(), the file is not touched
GetGeneratedImportPaths(w) ==
  /\ running[w]
  /\ IF generateImportsThrows(_isActive[w], fs, options[w])
     THEN /\ \E cache \in ThrownCaches(fs, options[w]) :
               _currentGroupedImportsCache' =
                 [_currentGroupedImportsCache EXCEPT ![w] = cache]
          /\ last' = Thrown("getGeneratedImportPaths", w)
     ELSE /\ _currentGroupedImportsCache' =
               [_currentGroupedImportsCache EXCEPT
                  ![w] = generateImports(_isActive[w], @, fs, options[w])]
          /\ last' = Op("getGeneratedImportPaths", w)
  /\ UNCHANGED <<stylesFile, fs, options, running, _isActive, timer, closed,
                 watcherConfigs, opsLeft, clock>>

\* A file is added to or removed from the tree; chokidar calls
\* debouncedReactiveUpdate of every open watcher that watches it, which
\* (re)starts that watcher's timeout.
FsChange(f) ==
  /\ fs' = IF f \in fs THEN fs \ {f} ELSE fs \cup {f}
  /\ timer' = [w \in WatcherNames |->
                 IF options[w] # NoOptions /\ ~closed[w]
                    /\ Watches(options[w], f)
                 THEN TRUE ELSE timer[w]]
  /\ last' = Op("fsChange", "")
  /\ UNCHANGED <<stylesFile, options, running, _isActive,
                 _currentGroupedImportsCache, closed, watcherConfigs, opsLeft, clock>>

\* The debounce timeout expires: fn() is updateStylesFile(false), then
\* timer = null.  The callback looks at neither _isActive nor the closing.
TimerFire(w) ==
  /\ timer[w]
  /\ CanGrow(stylesFile, options[w])
  /\ stylesFile' = updateStylesFile(stylesFile, options[w],
                                    _currentGroupedImportsCache[w])
  /\ timer' = [timer EXCEPT ![w] = FALSE]
  /\ last' = Op("debouncedReactiveUpdate", w)
  /\ UNCHANGED <<fs, options, running, _isActive,
                 _currentGroupedImportsCache, closed, watcherConfigs, opsLeft, clock>>

\* pause()
Pause(w) ==
  /\ running[w]
  /\ _isActive' = [_isActive EXCEPT ![w] = FALSE]
  /\ last' = Op("pause", w)
  /\ UNCHANGED <<stylesFile, fs, options, running,
                 _currentGroupedImportsCache, timer, closed, watcherConfigs, opsLeft, clock>>

\* resume(): on a paused watcher sets _isActive and calls
\* debouncedReactiveUpdate(), which starts the timeout; otherwise only logs
Resume(w) ==
  /\ running[w]
  /\ IF ~_isActive[w]
     THEN /\ _isActive' = [_isActive EXCEPT ![w] = TRUE]
          /\ timer' = [timer EXCEPT ![w] = TRUE]
          /\ last' = Op("resume", w)
     ELSE /\ UNCHANGED <<_isActive, timer>>
          /\ last' = Op("resumeWhileRunning", w)
  /\ UNCHANGED <<stylesFile, fs, options, running,
                 _currentGroupedImportsCache, closed, watcherConfigs, opsLeft, clock>>

\* Mutant of Close: close() also takes the owner's region out of the file.
Close_removesMarkers(w) ==
  /\ running[w]
  /\ closed' = [closed EXCEPT ![w] = TRUE]
  /\ stylesFile' = removeMarkers(stylesFile, options[w], TRUE)
  /\ last' = Op("close", w)
  /\ UNCHANGED <<fs, options, running, _isActive,
                 _currentGroupedImportsCache, timer, watcherConfigs, opsLeft,
                 clock>>

\* close(): watcher.close(), the chokidar subscription ends
Close(w) ==
  /\ running[w]
  /\ closed' = [closed EXCEPT ![w] = TRUE]
  /\ last' = Op("close", w)
  /\ UNCHANGED <<stylesFile, fs, options, running, _isActive,
                 _currentGroupedImportsCache, timer, watcherConfigs, opsLeft, clock>>

\* The destruction of a watcher as the delete, edit and exit flows do it:
\* instance.removeMarkers(true); instance.close(); watchers.delete(name)
Destroy(w) ==
  /\ running[w]
  /\ stylesFile' = removeMarkers(stylesFile, options[w], TRUE)
  /\ closed' = [closed EXCEPT ![w] = TRUE]
  /\ running' = [running EXCEPT ![w] = FALSE]
  /\ last' = Op("destroy", w)
  /\ UNCHANGED <<fs, options, _isActive, _currentGroupedImportsCache, timer,
                 watcherConfigs, opsLeft, clock>>

\* ------------------------------------------------------------------------
\* Specification of the watcher life cycle: two watchers, a parent on "a"
\* and a child on "a/b", constructed on the same target file
\* ------------------------------------------------------------------------

\* the target file the watchers are constructed on: one rule, last newline
InitialStylesFile == <<<<"body { }">>, EmptyLine>>

\* the partials that come and go while the watchers run
VolatileFiles ==
  { File(<<"a">>, <<"_", "p", ".scss">>),
    File(<<"a", "b">>, <<"_", "q", ".scss">>) }

\* the options the two watchers are constructed with
LifecycleOptions ==
  [w \in WatcherNames |->
     IF w = "w1"
     THEN [watchDir |-> <<"a">>, line |-> 1, markerId |-> "",
           excludePaths |-> {<<"a", "b">>}]
     ELSE [watchDir |-> <<"a", "b">>, line |-> 1, markerId |-> "",
           excludePaths |-> {}]]

\* Both watchers were constructed and initialised the way
\* loadAndInitializeWatcher does it (scssImportWatcher(fullConfig), then
\* instance._initialUpdate()), first w1, then w2.
Init ==
  /\ fs \in SUBSET VolatileFiles
  /\ options = LifecycleOptions
  /\ running = [w \in WatcherNames |-> TRUE]
  /\ _isActive = [w \in WatcherNames |-> TRUE]
  /\ _currentGroupedImportsCache =
       [w \in WatcherNames |-> DiscoverCache(fs, options[w])]
  /\ stylesFile =
       updateStylesFile(
         updateStylesFile(InitialStylesFile, options["w1"],
                          _currentGroupedImportsCache["w1"]),
         options["w2"], _currentGroupedImportsCache["w2"])
  /\ timer = [w \in WatcherNames |-> FALSE]
  /\ closed = [w \in WatcherNames |-> FALSE]
  /\ watcherConfigs = <<>>
  /\ last = Op("loadAndInitializeWatcher", "w2")
  /\ opsLeft = 0
  /\ clock = NoClock

Next ==
  \/ \E w \in WatcherNames : InitialUpdate(w)
  \/ \E w \in WatcherNames : GetGeneratedImportPaths(w)
  \/ \E f \in VolatileFiles : FsChange(f)
  \/ \E w \in WatcherNames : TimerFire(w)
  \/ \E w \in WatcherNames : Pause(w)
  \/ \E w \in WatcherNames : Resume(w)
  \/ \E w \in WatcherNames : Close(w)
  \/ \E w \in WatcherNames : Destroy(w)

Spec == Init /\ [][Next]_vars

\* ------------------------------------------------------------------------
\* Specification of the text operations: synchronize (_initialUpdate) and
\* removeMarkers of two owners "a" and "b", applied in any order to a target
\* file drawn from a bounded set, under a fixed directory snapshot
\* ------------------------------------------------------------------------

\* the pieces the initial target files are made of
InitChunks ==
  { <<EmptyLine>>,
    <<<<"body { }">>>>,
    <<<<"h1 { }">>, EmptyLine, EmptyLine>>,
    <<<<markerStart("a")>>, <<"@import \"old\";">>, <<markerEnd("a")>>>>,
    <<<<markerStart("b")>>, <<"@import \"other\";">>, <<markerEnd("b")>>>>,
    <<<<markerStart("a")>>>>,
    <<<<markerEnd("a")>>>> }

\* the target files of at most n chunks; the empty content is one empty line
InitialFiles(n) ==
  { IF cs = <<>> THEN <<EmptyLine>> ELSE Flatten(cs) :
      cs \in UNION { [1..k -> InitChunks] : k \in 0..n } }

\* The two watchers were constructed, w1 to insert at line 1 and w2 at line
\* MaxLine, and _getGeneratedImportPaths() has filled their caches.
InitSync ==
  /\ stylesFile \in InitialFiles(MaxInitChunks)
  /\ fs \in {{}, FsUniverse}
  /\ options = [LifecycleOptions EXCEPT !["w2"].line = MaxLine]
  /\ running = [w \in WatcherNames |-> TRUE]
  /\ _isActive = [w \in WatcherNames |-> TRUE]
  /\ _currentGroupedImportsCache =
       [w \in WatcherNames |-> DiscoverCache(fs, options[w])]
  /\ timer = [w \in WatcherNames |-> FALSE]
  /\ closed = [w \in WatcherNames |-> FALSE]
  /\ watcherConfigs = <<>>
  /\ last = Op("_getGeneratedImportPaths", "w2")
  /\ opsLeft = MaxOps
  /\ clock = NoClock

\* synchronize: _initialUpdate() of the owner's watcher
Synchronize(w) ==
  /\ opsLeft > 0
  /\ CanGrow(stylesFile, options[w])
  /\ LET cache == generateImports(_isActive[w],
                                  _currentGroupedImportsCache[w],
                                  fs, options[w])
     IN /\ _currentGroupedImportsCache' =
             [_currentGroupedImportsCache EXCEPT ![w] = cache]
        /\ stylesFile' = updateStylesFile(stylesFile, options[w], cache)
  /\ last' = Op("synchronize", w)
  /\ opsLeft' = opsLeft - 1
  /\ UNCHANGED <<fs, options, running, _isActive, timer, closed,
                 watcherConfigs, clock>>

\* remove: removeMarkers(deleteImports) of the owner's watcher
Remove(w, deleteImports) ==
  /\ opsLeft > 0
  /\ stylesFile' = removeMarkers(stylesFile, options[w], deleteImports)
  /\ last' = Op(IF deleteImports THEN "remove(true)" ELSE "remove(false)", w)
  /\ opsLeft' = opsLeft - 1
  /\ UNCHANGED <<fs, options, running, _isActive,
                 _currentGroupedImportsCache, timer, closed, watcherConfigs, clock>>

NextSync ==
  \/ \E w \in WatcherNames : Synchronize(w)
  \/ \E w \in WatcherNames, deleteImports \in BOOLEAN :
       Remove(w, deleteImports)

SpecSync == InitSync /\ [][NextSync]_vars

\* ------------------------------------------------------------------------
\* The text operations on a target file both watchers have synchronized
\* ------------------------------------------------------------------------

\* the target files the watchers are constructed on
RoundFiles == { <<EmptyLine>>, InitialStylesFile,
                <<<<"h1 { }">>, EmptyLine, <<"body { }">>>> }

\* Both watchers were constructed, w1 to insert at line 1 and w2 at line
\* MaxLine, and initialised (first w1, then w2) on a file without markers.
InitRound ==
  /\ fs \in SUBSET VolatileFiles
  /\ options = [LifecycleOptions EXCEPT !["w2"].line = MaxLine]
  /\ running = [w \in WatcherNames |-> TRUE]
  /\ _isActive = [w \in WatcherNames |-> TRUE]
  /\ _currentGroupedImportsCache =
       [w \in WatcherNames |-> DiscoverCache(fs, options[w])]
  /\ \E file \in RoundFiles :
       stylesFile =
         updateStylesFile(
           updateStylesFile(file, options["w1"],
                            _currentGroupedImportsCache["w1"]),
           options["w2"], _currentGroupedImportsCache["w2"])
  /\ timer = [w \in WatcherNames |-> FALSE]
  /\ closed = [w \in WatcherNames |-> FALSE]
  /\ watcherConfigs = <<>>
  /\ last = Op("loadAndInitializeWatcher", "w2")
  /\ opsLeft = MaxOps
  /\ clock = NoClock

SpecRound == InitRound /\ [][NextSync]_vars

\* ------------------------------------------------------------------------
\* The debounce in time: change events of one partial, the clock and the
\* timeout of the watcher that watches it.  Time is counted in milliseconds.
\* ------------------------------------------------------------------------

\* debounce(() => updateStylesFile(false), 100): the delay
DebounceDelay == 100

\* Mutant of debounce: a timeout that is pending is left as it is
\* (`if (timer) return;`), only a call without pending timeout sets one.
debounce_keepsPending(pending, age) == IF pending THEN age ELSE 0

\* A call of the function debounce() returns: a pending timeout is cleared
\* and a new one is set; the result is the age of the pending timeout.
debounce(pending, age) == 0

\* the partial whose changes are observed in time
TimedFile == File(<<"a">>, <<"_", "p", ".scss">>)

\* a timeout of some watcher is due: its callback runs before anything else
TimeoutDue == \E w \in WatcherNames : timer[w] /\ clock[w].age >= DebounceDelay

\* chokidar reports a change of the partial: debouncedReactiveUpdate() is
\* called for every watcher that watches it
ChangeEvent(f) ==
  /\ opsLeft > 0
  /\ ~TimeoutDue
  /\ fs' = IF f \in fs THEN fs \ {f} ELSE fs \cup {f}
  /\ timer' = [w \in WatcherNames |->
                 IF Watches(options[w], f) THEN TRUE ELSE timer[w]]
  /\ clock' = [w \in WatcherNames |->
                 IF Watches(options[w], f)
                 THEN [age |-> debounce(timer[w], clock[w].age),
                       idle |-> 0,
                       calls |-> IF clock[w].passes > 0 THEN 1
                                 ELSE clock[w].calls + 1,
                       passes |-> 0]
                 ELSE clock[w]]
  /\ opsLeft' = opsLeft - 1
  /\ last' = Op("fsChange", "")
  /\ UNCHANGED <<stylesFile, options, running, _isActive,
                 _currentGroupedImportsCache, closed, watcherConfigs>>

\* one millisecond passes (times are not counted beyond the delay)
TimePasses ==
  /\ ~TimeoutDue
  /\ \E w \in WatcherNames : clock[w].idle < DebounceDelay
  /\ clock' = [w \in WatcherNames |->
                 [clock[w] EXCEPT
                    !.age = IF timer[w] THEN @ + 1 ELSE @,
                    !.idle = Min(@ + 1, DebounceDelay)]]
  /\ last' = Op("timePasses", "")
  /\ UNCHANGED <<stylesFile, fs, options, running, _isActive,
                 _currentGroupedImportsCache, timer, closed, watcherConfigs,
                 opsLeft>>

\* the timeout of the watcher is due: fn() is updateStylesFile(false), then
\* timer = null
TimeoutExpires(w) ==
  /\ timer[w]
  /\ clock[w].age >= DebounceDelay
  /\ stylesFile' = updateStylesFile(stylesFile, options[w],
                                    _currentGroupedImportsCache[w])
  /\ timer' = [timer EXCEPT ![w] = FALSE]
  /\ clock' = [clock EXCEPT ![w].age = 0, ![w].passes = @ + 1]
  /\ last' = Op("debouncedReactiveUpdate", w)
  /\ UNCHANGED <<fs, options, running, _isActive,
                 _currentGroupedImportsCache, closed, watcherConfigs, opsLeft>>

\* Both watchers were constructed and initialised as in Init; no call of
\* the debounced function has been made.
InitDebounce ==
  /\ fs \in SUBSET VolatileFiles
  /\ options = LifecycleOptions
  /\ running = [w \in WatcherNames |-> TRUE]
  /\ _isActive = [w \in WatcherNames |-> TRUE]
  /\ _currentGroupedImportsCache =
       [w \in WatcherNames |-> DiscoverCache(fs, options[w])]
  /\ stylesFile =
       updateStylesFile(
         updateStylesFile(InitialStylesFile, options["w1"],
                          _currentGroupedImportsCache["w1"]),
         options["w2"], _currentGroupedImportsCache["w2"])
  /\ timer = [w \in WatcherNames |-> FALSE]
  /\ closed = [w \in WatcherNames |-> FALSE]
  /\ watcherConfigs = <<>>
  /\ last = Op("loadAndInitializeWatcher", "w2")
  /\ opsLeft = MaxEvents
  /\ clock = [w \in WatcherNames |->
                [age |-> 0, idle |-> DebounceDelay, calls |-> 0,
                 passes |-> 0]]

NextDebounce ==
  \/ ChangeEvent(TimedFile)
  \/ TimePasses
  \/ \E w \in WatcherNames : TimeoutExpires(w)

\* Time passes and a due timeout runs: the event loop serves its timers.
SpecDebounce ==
  /\ InitDebounce
  /\ [][NextDebounce]_vars
  /\ WF_vars(TimePasses)
  /\ \A w \in WatcherNames : WF_vars(TimeoutExpires(w))

\* ------------------------------------------------------------------------
\* A target file that does not exist when the watchers are constructed
\* ------------------------------------------------------------------------

\* the contents the target file is created with
CreatedFiles == { <<EmptyLine>>, InitialStylesFile }

\* the user creates the target file
CreateStylesFile(content) ==
  /\ stylesFile = NoFile
  /\ stylesFile' = content
  /\ last' = Op("createStylesFile", "")
  /\ UNCHANGED <<fs, options, running, _isActive,
                 _currentGroupedImportsCache, timer, closed, watcherConfigs,
                 opsLeft, clock>>

\* Both watchers were constructed while the target file did not exist; the
\* discovery has filled the caches.
InitMissing ==
  /\ fs \in SUBSET VolatileFiles
  /\ options = LifecycleOptions
  /\ running = [w \in WatcherNames |-> TRUE]
  /\ _isActive = [w \in WatcherNames |-> TRUE]
  /\ _currentGroupedImportsCache =
       [w \in WatcherNames |-> DiscoverCache(fs, options[w])]
  /\ stylesFile = NoFile
  /\ timer = [w \in WatcherNames |-> FALSE]
  /\ closed = [w \in WatcherNames |-> FALSE]
  /\ watcherConfigs = <<>>
  /\ last = Op("loadAndInitializeWatcher", "w2")
  /\ opsLeft = 0
  /\ clock = NoClock

NextMissing ==
  \/ \E content \in CreatedFiles : CreateStylesFile(content)
  \/ \E w \in WatcherNames : InitialUpdate(w)
  \/ \E f \in VolatileFiles : FsChange(f)
  \/ \E w \in WatcherNames : TimerFire(w)

SpecMissing == InitMissing /\ [][NextMissing]_vars

\* ------------------------------------------------------------------------
\* A directory entry that cannot be stat'ed appears while the watchers run
\* ------------------------------------------------------------------------

NextFault ==
  \/ \E w \in WatcherNames : InitialUpdate(w)
  \/ \E w \in WatcherNames : GetGeneratedImportPaths(w)
  \/ \E f \in VolatileFiles \cup {BrokenLink} : FsChange(f)
  \/ \E w \in WatcherNames : TimerFire(w)

SpecFault == Init /\ [][NextFault]_vars

\* ------------------------------------------------------------------------
\* Construction of watchers from options of every kind
\* ------------------------------------------------------------------------

\* a directory next to rootDir: path.resolve(rootDir, "../x")
OutsideDir == <<"..", "x">>

\* a partial in the directory next to rootDir
OutsideFile == File(OutsideDir, <<"_", "p", ".scss">>)

\* the directory does not lie under rootDir
OutsideRoot(watchDir) == watchDir # <<>> /\ watchDir[1] = ".."

\* the options scssImportWatcher is called with
ConstructOptions ==
  { [watchDir |-> d, line |-> 1, markerId |-> "", excludePaths |-> {}] :
      d \in {<<"a">>, OutsideDir} }

\* scssImportWatcher(options): the paths are resolved, chokidar.watch
\* subscribes to watchDir and the handle is returned; neither the target
\* file nor the place of watchDir is looked at
Construct(w, opts) ==
  /\ options[w] = NoOptions
  /\ options' = [options EXCEPT ![w] = opts]
  /\ running' = [running EXCEPT ![w] = TRUE]
  /\ closed' = [closed EXCEPT ![w] = FALSE]
  /\ _isActive' = [_isActive EXCEPT ![w] = TRUE]
  /\ _currentGroupedImportsCache' =
       [_currentGroupedImportsCache EXCEPT ![w] = <<>>]
  /\ last' = Op("scssImportWatcher", w)
  /\ UNCHANGED <<stylesFile, fs, timer, watcherConfigs, opsLeft, clock>>

\* No watcher has been constructed; the target file exists or not.
InitConstruct ==
  /\ stylesFile \in {NoFile, InitialStylesFile}
  /\ fs \in SUBSET {TimedFile, OutsideFile}
  /\ options = [w \in WatcherNames |-> NoOptions]
  /\ running = [w \in WatcherNames |-> FALSE]
  /\ _isActive = [w \in WatcherNames |-> TRUE]
  /\ _currentGroupedImportsCache = [w \in WatcherNames |-> <<>>]
  /\ timer = [w \in WatcherNames |-> FALSE]
  /\ closed = [w \in WatcherNames |-> FALSE]
  /\ watcherConfigs = <<>>
  /\ last = Op("loadConfigs", "")
  /\ opsLeft = 0
  /\ clock = NoClock

NextConstruct ==
  \/ \E w \in WatcherNames, opts \in ConstructOptions : Construct(w, opts)
  \/ \E w \in WatcherNames : InitialUpdate(w)
  \/ \E f \in {TimedFile, OutsideFile} : FsChange(f)
  \/ \E w \in WatcherNames : TimerFire(w)

SpecConstruct == InitConstruct /\ [][NextConstruct]_vars

\* ------------------------------------------------------------------------
\* Discovery and first rendering over trees of every shape
\* ------------------------------------------------------------------------

\* The target file when it is a partial of the watched directory; it is in
\* the tree when the target file lies there, and out of it when the target
\* file lies elsewhere under rootDir.
stylesFilePath == File(<<"a">>, <<"_", "s", ".scss">>)

\* the partials the trees are made of
DiscoverUniverse ==
  { File(<<"a">>, <<"_", "a", ".scss">>),
    File(<<"a">>, <<"_", "b", ".scss">>),
    File(<<"a">>, <<"_", "a", " ", "b", ".scss">>),
    File(<<"a">>, <<"_", ".scss">>),
    File(<<"a", "_x">>, <<"_", "c", ".scss">>),
    File(<<"a", "b">>, <<"_", "q", ".scss">>),
    File(<<"a", "bd">>, <<"_", "r", ".scss">>),
    File(<<"a", "1">>, <<"_", "c", ".scss">>),
    stylesFilePath }

\* the options the watcher on directory a is constructed with
DiscoverOptions ==
  { [watchDir |-> <<"a">>, line |-> 1, markerId |-> "",
     excludePaths |-> ex] : ex \in { {}, {<<"a", "b">>}, {<<"a">>} } }

\* Watcher w1 was constructed on an empty target file; its first
\* _initialUpdate has not run.
InitDiscover ==
  /\ stylesFile = <<EmptyLine>>
  /\ fs \in SUBSET DiscoverUniverse
  /\ \E opts \in DiscoverOptions :
       options = [w \in WatcherNames |->
                    IF w = "w1" THEN opts ELSE NoOptions]
  /\ running = [w \in WatcherNames |-> w = "w1"]
  /\ _isActive = [w \in WatcherNames |-> TRUE]
  /\ _currentGroupedImportsCache = [w \in WatcherNames |-> <<>>]
  /\ timer = [w \in WatcherNames |-> FALSE]
  /\ closed = [w \in WatcherNames |-> FALSE]
  /\ watcherConfigs = <<>>
  /\ last = Op("scssImportWatcher", "w1")
  /\ opsLeft = 0
  /\ clock = NoClock

NextDiscover ==
  \/ \E w \in WatcherNames : InitialUpdate(w)
  \/ \E w \in WatcherNames : GetGeneratedImportPaths(w)

SpecDiscover == InitDiscover /\ [][NextDiscover]_vars

\* ------------------------------------------------------------------------
\* The text operations with insertion lines of every kind
\* ------------------------------------------------------------------------

\* options.line as the library accepts it: no check is made on it, so it can
\* be zero or negative, inside the file, or far below its last line
InsertionLines == ((1 - MaxLine)..MaxLine) \cup {MaxFileLines + MaxLine}

\* As InitSync, on the shorter target files, with w1 constructed for any of
\* the insertion lines.
InitInsert ==
  /\ stylesFile \in InitialFiles(MaxInitChunks - 1)
  /\ fs \in {{}, FsUniverse}
  /\ \E line \in InsertionLines :
       options = [LifecycleOptions EXCEPT !["w1"].line = line,
                                          !["w2"].line = MaxLine]
  /\ running = [w \in WatcherNames |-> TRUE]
  /\ _isActive = [w \in WatcherNames |-> TRUE]
  /\ _currentGroupedImportsCache =
       [w \in WatcherNames |-> DiscoverCache(fs, options[w])]
  /\ timer = [w \in WatcherNames |-> FALSE]
  /\ closed = [w \in WatcherNames |-> FALSE]
  /\ watcherConfigs = <<>>
  /\ last = Op("_getGeneratedImportPaths", "w2")
  /\ opsLeft = MaxOps
  /\ clock = NoClock

SpecInsert == InitInsert /\ [][NextSync]_vars

\* ------------------------------------------------------------------------
\* Watcher management flows of the command line front-end
\* ------------------------------------------------------------------------

\* the directories a watcher can be configured on
WatchDirs == { <<"a">>, <<"a", "b">>, <<"a", "b", "d">> }

\* a record of watcherConfigs
Config(name, watchDir, line, markerId, excludePaths) ==
  [name |-> name, watchDir |-> watchDir, line |-> line,
   markerId |-> markerId, excludePaths |-> excludePaths]

\* position of the watcher's record in watcherConfigs, 0 when it has none
ConfigIndex(cfgs, name) ==
  IF \E i \in 1..Len(cfgs) : cfgs[i].name = name
  THEN CHOOSE i \in 1..Len(cfgs) : cfgs[i].name = name
  ELSE 0

\* !path.relative(parent, child).startsWith('..') && relative !== ''
IsChildDir(parent, child) == IsPrefix(parent, child) /\ child # parent

\* the part of the state the flows work on
FlowState ==
  [cfgs |-> watcherConfigs, file |-> stylesFile, opt |-> options,
   run |-> running, cache |-> _currentGroupedImportsCache,
   closed |-> closed]

\* if (instance) { instance.removeMarkers(true); instance.close();
\*                 watchers.delete(name); }
CleanUpInstance(st, name) ==
  IF st.run[name]
  THEN [st EXCEPT !.file = removeMarkers(st.file, st.opt[name], TRUE),
                  !.run[name] = FALSE,
                  !.closed[name] = TRUE]
  ELSE st

\* loadAndInitializeWatcher(name): a new instance from the watcher's record,
\* instance._initialUpdate(), watchers.set(name, ...)
loadAndInitializeWatcher(st, name) ==
  LET i == ConfigIndex(st.cfgs, name)
      opts == [watchDir |-> st.cfgs[i].watchDir, line |-> st.cfgs[i].line,
               markerId |-> st.cfgs[i].markerId,
               excludePaths |-> st.cfgs[i].excludePaths]
      cache == DiscoverCache(fs, opts)
  IN IF i = 0 THEN st
     ELSE [st EXCEPT !.opt[name] = opts,
                     !.cache[name] = cache,
                     !.file = updateStylesFile(st.file, opts, cache),
                     !.run[name] = TRUE,
                     !.closed[name] = FALSE]

\* the record at position i gets new excludePaths, is saved, and its watcher
\* is re-initialised (old instance cleaned up, then loadAndInitializeWatcher)
ReapplyExcludePaths(st, i, excludePaths) ==
  LET name == st.cfgs[i].name
      saved == [st EXCEPT !.cfgs[i].excludePaths = excludePaths]
  IN loadAndInitializeWatcher(CleanUpInstance(saved, name), name)

RECURSIVE CreateLoop(_, _, _)
\* createWatcherFlow, the loop over the existing watchers from position i:
\* a watcher whose watchDir contains the new one gets it as excluded path
CreateLoop(st, i, name) ==
  IF i > Len(st.cfgs) THEN st
  ELSE LET existing == st.cfgs[i]
           newDir == st.cfgs[ConfigIndex(st.cfgs, name)].watchDir
       IN IF existing.name # name
             /\ IsChildDir(existing.watchDir, newDir)
             /\ newDir \notin existing.excludePaths
          THEN CreateLoop(
                 ReapplyExcludePaths(st, i,
                                     existing.excludePaths \cup {newDir}),
                 i + 1, name)
          ELSE CreateLoop(st, i + 1, name)

\* createWatcherFlow with the answers name, watchDir, line and markerId
createWatcherFlow(st, name, watchDir, line, markerId) ==
  LET added == [st EXCEPT !.cfgs =
                  Append(@, Config(name, watchDir, line, markerId, {}))]
  IN loadAndInitializeWatcher(CreateLoop(added, 1, name), name)

RECURSIVE EditLoop(_, _, _, _, _)
\* editWatcherFlow, the loop over the other watchers from position i after
\* the watchDir of the edited watcher changed from oldDir to newDir
EditLoop(st, i, name, oldDir, newDir) ==
  IF i > Len(st.cfgs) THEN st
  ELSE LET other == st.cfgs[i]
           dropOld == IsChildDir(other.watchDir, oldDir)
                      /\ oldDir \in other.excludePaths
           afterDrop == IF dropOld THEN other.excludePaths \ {oldDir}
                        ELSE other.excludePaths
           addNew == IsChildDir(other.watchDir, newDir)
                     /\ newDir \notin afterDrop
           updated == IF addNew THEN afterDrop \cup {newDir} ELSE afterDrop
       IN IF other.name # name /\ (dropOld \/ addNew)
          THEN EditLoop(ReapplyExcludePaths(st, i, updated),
                        i + 1, name, oldDir, newDir)
          ELSE EditLoop(st, i + 1, name, oldDir, newDir)

\* editWatcherFlow with a new watchDir, line and markerId (the exclude paths
\* are not edited by hand)
editWatcherFlow(st, name, watchDir, line, markerId) ==
  LET i == ConfigIndex(st.cfgs, name)
      old == st.cfgs[i]
      saved == [st EXCEPT !.cfgs[i].watchDir = watchDir,
                          !.cfgs[i].line = line,
                          !.cfgs[i].markerId = markerId]
      reinit == IF saved.cfgs[i] # old
                THEN loadAndInitializeWatcher(CleanUpInstance(saved, name),
                                              name)
                ELSE saved
  IN IF old.watchDir # watchDir
     THEN EditLoop(reinit, 1, name, old.watchDir, watchDir)
     ELSE reinit

RECURSIVE DeleteLoop(_, _, _)
\* deleteWatcherFlow, the loop over the remaining watchers from position i:
\* the deleted watchDir is taken out of their excludePaths
DeleteLoop(st, i, deletedDir) ==
  IF i > Len(st.cfgs) THEN st
  ELSE IF deletedDir \in st.cfgs[i].excludePaths
       THEN DeleteLoop(
              ReapplyExcludePaths(st, i,
                                  st.cfgs[i].excludePaths \ {deletedDir}),
              i + 1, deletedDir)
       ELSE DeleteLoop(st, i + 1, deletedDir)

\* deleteWatcherFlow for one confirmed watcher
deleteWatcherFlow(st, name) ==
  LET i == ConfigIndex(st.cfgs, name)
      cleaned == CleanUpInstance(st, name)
      removed == [cleaned EXCEPT !.cfgs =
                    SubSeq(@, 1, i - 1) \o SubSeq(@, i + 1, Len(@))]
  IN DeleteLoop(removed, 1, st.cfgs[i].watchDir)

\* the state after a flow
FlowResult(st, op, name) ==
  /\ watcherConfigs' = st.cfgs
  /\ stylesFile' = st.file
  /\ options' = st.opt
  /\ running' = st.run
  /\ _currentGroupedImportsCache' = st.cache
  /\ closed' = st.closed
  /\ last' = Op(op, name)
  /\ UNCHANGED <<fs, _isActive, timer, opsLeft, clock>>

CreateWatcherFlow(name, watchDir, line) ==
  /\ ConfigIndex(watcherConfigs, name) = 0
  /\ FlowResult(createWatcherFlow(FlowState, name, watchDir, line, ""),
                "createWatcherFlow", name)

EditWatcherFlow(name, watchDir, line) ==
  /\ ConfigIndex(watcherConfigs, name) # 0
  /\ FlowResult(editWatcherFlow(FlowState, name, watchDir, line, ""),
                "editWatcherFlow", name)

DeleteWatcherFlow(name) ==
  /\ ConfigIndex(watcherConfigs, name) # 0
  /\ FlowResult(deleteWatcherFlow(FlowState, name),
                "deleteWatcherFlow", name)

\* The front-end has loaded an empty configuration: no watcher is
\* configured, the target file holds one rule, the tree is populated.
InitCli ==
  /\ stylesFile = InitialStylesFile
  /\ fs \in {FsUniverse, VolatileFiles}
  /\ options = [w \in WatcherNames |-> NoOptions]
  /\ running = [w \in WatcherNames |-> FALSE]
  /\ _isActive = [w \in WatcherNames |-> TRUE]
  /\ _currentGroupedImportsCache = [w \in WatcherNames |-> <<>>]
  /\ timer = [w \in WatcherNames |-> FALSE]
  /\ closed = [w \in WatcherNames |-> FALSE]
  /\ watcherConfigs = <<>>
  /\ last = Op("loadConfigs", "")
  /\ opsLeft = 0
  /\ clock = NoClock

NextCli ==
  \/ \E name \in WatcherNames, watchDir \in WatchDirs, line \in 1..MaxLine :
       CreateWatcherFlow(name, watchDir, line)
  \/ \E name \in WatcherNames, watchDir \in WatchDirs, line \in 1..MaxLine :
       EditWatcherFlow(name, watchDir, line)
  \/ \E name \in WatcherNames : DeleteWatcherFlow(name)

SpecCli == InitCli /\ [][NextCli]_vars

TypeOK ==
  /\ running \in [WatcherNames -> BOOLEAN]
  /\ timer \in [WatcherNames -> BOOLEAN]
  /\ closed \in [WatcherNames -> BOOLEAN]
  /\ _isActive \in [WatcherNames -> BOOLEAN]
  /\ fs \subseteq FsUniverse
  /\ Len(stylesFile) >= 1

\* ------------------------------------------------------------------------
\* Observations on the target file
\* ------------------------------------------------------------------------

MarkerIdOf(w) == effectiveMarkerId(options[w])

\* the lines strictly between the located markers of the owner
RegionBody(lines, id) ==
  SubSeq(lines, ScanIndex(lines, markerStart(id)) + 1,
         ScanIndex(lines, markerEnd(id)) - 1)

\* some line holds a start or an end marker of the owner
HasMarkerOf(lines, id) ==
  \E i \in 1..Len(lines) :
    Includes(lines[i], markerStart(id)) \/ Includes(lines[i], markerEnd(id))

\* the owner's region exists and its body is what a discovery made now
\* would render
RegionIsFresh(w) ==
  /\ MarkersFound(stylesFile, MarkerIdOf(w))
  /\ RegionBody(stylesFile, MarkerIdOf(w))
       = newImportsContent(DiscoverCache(fs, options[w]))

\* p is a suffix of q
IsSuffix(p, q) ==
  Len(p) <= Len(q) /\ SubSeq(q, Len(q) - Len(p) + 1, Len(q)) = p

\* the lines that are not empty, in order
NonBlank(lines) == SelectSeq(lines, LAMBDA line : line # EmptyLine)

\* the indices of the lines that include the text
LinesWith(lines, text) == { i \in 1..Len(lines) : Includes(lines[i], text) }

\* the file holds exactly one start and one end marker line of the owner,
\* the start above the end: one well-formed region
OnePair(lines, id) ==
  /\ Cardinality(LinesWith(lines, markerStart(id))) = 1
  /\ Cardinality(LinesWith(lines, markerEnd(id))) = 1
  /\ \A i \in LinesWith(lines, markerStart(id)) :
       \A j \in LinesWith(lines, markerEnd(id)) : i < j

\* the lines above the owner's start marker, for a file with OnePair
LinesBefore(lines, id) ==
  SubSeq(lines, 1,
         (CHOOSE i \in LinesWith(lines, markerStart(id)) : TRUE) - 1)

\* the lines below the owner's end marker, for a file with OnePair
LinesAfter(lines, id) ==
  SubSeq(lines, (CHOOSE i \in LinesWith(lines, markerEnd(id)) : TRUE) + 1,
         Len(lines))

\* the step is a synchronize or a remove made for the watcher
TextOpBy(w) ==
  /\ last'.w = w
  /\ last'.op \in {"synchronize", "remove(true)", "remove(false)"}

\* ------------------------------------------------------------------------
\* Properties of the watcher management flows
\* ------------------------------------------------------------------------

\* C9: after every completed create, edit or delete, for every pair of
\* configured watchers A and B with B's watchDir a strict descendant of A's,
\* A's excludePaths holds B's watchDir and A's running instance was
\* initialised with that exclusion.
C9_CrossWatcherExclusion ==
  \A i, j \in 1..Len(watcherConfigs) :
    LET A == watcherConfigs[i]
        B == watcherConfigs[j]
    IN IsChildDir(A.watchDir, B.watchDir)
         => /\ B.watchDir \in A.excludePaths
            /\ running[A.name] => B.watchDir \in options[A.name].excludePaths

\* C10: with a parent watcher P and a child watcher C both configured, no
\* file under C's watchDir is in the set P's instance discovers.
C10_ParentDiscoversNoChildFile ==
  \A i, j \in 1..Len(watcherConfigs) :
    LET P == watcherConfigs[i]
        C == watcherConfigs[j]
    IN (IsChildDir(P.watchDir, C.watchDir) /\ running[P.name])
         => \A f \in readDirRecursive(fs, options[P.name],
                                      options[P.name].watchDir) :
              ~IsPrefix(C.watchDir, f.dir)

\* C11: at every moment no two configured watchers (they all share the one
\* target file) have the same effective owner id: markerId, or the basename
\* of watchDir when no markerId was given.
C11_OwnerIdsAreUnique ==
  \A i, j \in 1..Len(watcherConfigs) :
    i # j => effectiveMarkerId(watcherConfigs[i])
               # effectiveMarkerId(watcherConfigs[j])

\* C12: when a watcher with a region in the target file is deleted through
\* the front-end, its start and end marker are removed and the import
\* statements of its region stay in the file as floating imports.
C12_DeleteLeavesFloatingImports ==
  [][\A w \in WatcherNames :
       ( /\ last' = Op("deleteWatcherFlow", w)
         /\ running[w]
         /\ OnePair(stylesFile, MarkerIdOf(w)) )
       => /\ ~HasMarkerOf(stylesFile', MarkerIdOf(w))
          /\ \A i \in 1..Len(RegionBody(stylesFile, MarkerIdOf(w))) :
               LET line == RegionBody(stylesFile, MarkerIdOf(w))[i]
               IN (line # EmptyLine /\ ~IsGroupMarkerLine(line))
                    => \E k \in 1..Len(stylesFile') : stylesFile'[k] = line]_vars

\* ------------------------------------------------------------------------
\* Properties of the text operations
\* ------------------------------------------------------------------------

\* C2: idempotence.  When synchronize has run for an owner on a file that
\* held no marker of the owner or one well-formed region of it, running it
\* again under the same directory snapshot writes the identical content.
C2_Idempotence ==
  [][\A w \in WatcherNames :
       ( /\ last' = Op("synchronize", w)
         /\ \/ ~HasMarkerOf(stylesFile, MarkerIdOf(w))
            \/ OnePair(stylesFile, MarkerIdOf(w)) )
       => updateStylesFile(stylesFile', options[w],
                           DiscoverCache(fs, options[w])) = stylesFile']_vars

\* a synchronize has rewritten the one region of an owner with a body that
\* is not empty, in a file that also holds a region of the other owner
C2_Witness ==
  \E w \in WatcherNames :
    /\ last = Op("synchronize", w)
    /\ opsLeft < MaxOps - 1
    /\ \A v \in WatcherNames : OnePair(stylesFile, MarkerIdOf(v))
    /\ _currentGroupedImportsCache[w] # <<>>
    /\ RegionBody(stylesFile, MarkerIdOf(w))
         = newImportsContent(_currentGroupedImportsCache[w])

\* C3 as stated: in a file that holds one region of every owner, a
\* synchronize or a remove for owner X leaves every line above X's start
\* marker and below X's end marker unchanged, in content and order.
C3_Locality_AsStated ==
  [][\A w \in WatcherNames :
       ( /\ TextOpBy(w)
         /\ \A v \in WatcherNames : OnePair(stylesFile, MarkerIdOf(v)) )
       => /\ IsPrefix(LinesBefore(stylesFile, MarkerIdOf(w)), stylesFile')
          /\ IsSuffix(LinesAfter(stylesFile, MarkerIdOf(w)), stylesFile')
          /\ Len(stylesFile') >= Len(LinesBefore(stylesFile, MarkerIdOf(w)))
                                 + Len(LinesAfter(stylesFile, MarkerIdOf(w)))]_vars

\* C3 as amended: a synchronize or a remove for owner X, on a file with one
\* region of X, leaves every non-empty line above X's start marker and below
\* X's end marker unchanged, in content and order (empty lines outside the
\* region may be dropped by the whole-file newline normalisation).
C3_Locality ==
  [][\A w \in WatcherNames :
       (TextOpBy(w) /\ OnePair(stylesFile, MarkerIdOf(w)))
       => LET before == NonBlank(LinesBefore(stylesFile, MarkerIdOf(w)))
              after == NonBlank(LinesAfter(stylesFile, MarkerIdOf(w)))
              now == NonBlank(stylesFile')
          IN /\ IsPrefix(before, now)
             /\ IsSuffix(after, now)
             /\ Len(now) >= Len(before) + Len(after)]_vars

\* a synchronize was made for an owner in a file that holds the regions of
\* both owners, a rule and empty lines
C3_Witness ==
  \E w \in WatcherNames :
    /\ last = Op("synchronize", w)
    /\ \A v \in WatcherNames : OnePair(stylesFile, MarkerIdOf(v))
    /\ \E i \in 1..Len(stylesFile) : stylesFile[i] = <<"h1 { }">>
    /\ \E i \in 1..Len(stylesFile) : stylesFile[i] = EmptyLine
    /\ \E i \in 1..Len(stylesFile) : stylesFile[i] = <<"@import \"other\";">>

\* ------------------------------------------------------------------------
\* Properties of the watcher life cycle
\* ------------------------------------------------------------------------

\* C1: when the debounce window of an Active watcher expires, the pass that
\* runs makes a fresh discovery and a synchronize, so that the body between
\* the owner's markers equals the imports derived from the directory then.
C1_ReactivePassIsFresh ==
  \A w \in WatcherNames :
    (last = Op("debouncedReactiveUpdate", w) /\ _isActive[w])
      => RegionIsFresh(w)

\* C4: while a watcher is Paused no debounce expiry makes it write the
\* target file.
C4_NoWriteWhilePaused ==
  \A w \in WatcherNames :
    ~(last = Op("debouncedReactiveUpdate", w) /\ ~_isActive[w])

\* C5: when resume() returns on a watcher that was Paused, one synchronize
\* pass has run: the owner's region body equals the imports derived from the
\* current directory contents.
C5_ResumeCatchesUp ==
  \A w \in WatcherNames : last = Op("resume", w) => RegionIsFresh(w)

\* C6: close() and pause() cancel the pending debounce timer of the watcher:
\* right after either call no timeout of that watcher is pending.
C6_CloseAndPauseCancelTimer ==
  [][\A w \in WatcherNames :
       ((closed'[w] /\ ~closed[w]) \/ (_isActive[w] /\ ~_isActive'[w]))
         => ~timer'[w]]_vars

\* C7: Closed is terminal: a watcher on which close() was called never
\* writes the target file from its debounced callback again.
C7_ClosedIsTerminal ==
  \A w \in WatcherNames :
    ~(closed[w] /\ last = Op("debouncedReactiveUpdate", w))

\* C8: once a watcher was destroyed (removeMarkers(true), close(), handle
\* dropped) the target file holds no start or end marker of its owner id.
C8_DestroyedLeavesNoMarkers ==
  \A w \in WatcherNames :
    (~running[w] /\ closed[w]) => ~HasMarkerOf(stylesFile, MarkerIdOf(w))

\* ------------------------------------------------------------------------
\* Properties of removeMarkers
\* ------------------------------------------------------------------------

\* the lines as the content of a file: no line at all reads back as one
\* empty line
AsFile(lines) == IF lines = <<>> THEN <<EmptyLine>> ELSE lines

\* some line of the file equals the one fragment
HasLine(lines, text) == \E i \in 1..Len(lines) : lines[i] = <<text>>

\* the lines of the owner's region that removeMarkers(false) keeps
KeptBody(lines, id) ==
  SelectSeq(RegionBody(lines, id), LAMBDA line : ~IsGroupMarkerLine(line))

\* C13 as stated: removeMarkers(true) on a file with one well-formed region
\* of the owner deletes exactly the start marker line, the body lines and
\* the end marker line: the file is afterwards the lines before the region
\* followed by the lines after it.
C13_RemoveWithBody_AsStated ==
  [][\A w \in WatcherNames :
       ( /\ last' = Op("remove(true)", w)
         /\ OnePair(stylesFile, MarkerIdOf(w)) )
       => stylesFile' = AsFile(LinesBefore(stylesFile, MarkerIdOf(w))
                               \o LinesAfter(stylesFile, MarkerIdOf(w)))]_vars

\* C13 (amended): removeMarkers(true) on a file with one well-formed region
\* of the owner leaves no marker of the owner and none of the body lines;
\* the non-blank lines of the file are afterwards the non-blank lines before
\* the region followed by the non-blank lines after it.
C13_RemoveWithBody ==
  [][\A w \in WatcherNames :
       ( /\ last' = Op("remove(true)", w)
         /\ OnePair(stylesFile, MarkerIdOf(w)) )
       => /\ ~HasMarkerOf(stylesFile', MarkerIdOf(w))
          /\ NonBlank(stylesFile')
               = NonBlank(LinesBefore(stylesFile, MarkerIdOf(w)))
                 \o NonBlank(LinesAfter(stylesFile, MarkerIdOf(w)))]_vars

\* removeMarkers(true) of w1 was the first operation on a file that held a
\* rule, blank lines and the other owner's region, which is still there
C13_Witness ==
  /\ last = Op("remove(true)", "w1")
  /\ opsLeft = MaxOps - 1
  /\ ~HasMarkerOf(stylesFile, MarkerIdOf("w1"))
  /\ ~HasLine(stylesFile, "@import \"old\";")
  /\ HasLine(stylesFile, "h1 { }")
  /\ OnePair(stylesFile, MarkerIdOf("w2"))
  /\ HasLine(stylesFile, "@import \"other\";")

\* C14 as stated: removeMarkers(false) deletes only the two marker lines:
\* every line between the markers, group headings included, stays where it
\* was between the lines before and the lines after the region.
C14_RemoveKeepsBody_AsStated ==
  [][\A w \in WatcherNames :
       ( /\ last' = Op("remove(false)", w)
         /\ OnePair(stylesFile, MarkerIdOf(w)) )
       => stylesFile' = AsFile(LinesBefore(stylesFile, MarkerIdOf(w))
                               \o RegionBody(stylesFile, MarkerIdOf(w))
                               \o LinesAfter(stylesFile, MarkerIdOf(w)))]_vars

\* C14 (amended): removeMarkers(false) deletes the two marker lines and the
\* lines between them that hold a comment opener and a comment closer (the
\* group headings); the other non-blank lines of the body stay, in order,
\* between the non-blank lines before and after the region.
C14_RemoveKeepsBody ==
  [][\A w \in WatcherNames :
       ( /\ last' = Op("remove(false)", w)
         /\ OnePair(stylesFile, MarkerIdOf(w)) )
       => /\ ~HasMarkerOf(stylesFile', MarkerIdOf(w))
          /\ NonBlank(stylesFile')
               = NonBlank(LinesBefore(stylesFile, MarkerIdOf(w)))
                 \o NonBlank(KeptBody(stylesFile, MarkerIdOf(w)))
                 \o NonBlank(LinesAfter(stylesFile, MarkerIdOf(w)))]_vars

\* w1 rendered its region from the populated tree and removeMarkers(false)
\* then took its markers and group heading away: the import floats
C14_Witness ==
  /\ last = Op("remove(false)", "w1")
  /\ fs = FsUniverse
  /\ ~HasMarkerOf(stylesFile, MarkerIdOf("w1"))
  /\ HasLine(stylesFile, "@import \"p\";")
  /\ ~HasLine(stylesFile, GroupHeader("base"))

\* the owner's region cannot be found: no marker of the owner, only start
\* markers, only end markers, or every end marker above every start marker
RegionMissing(lines, id) ==
  \A i \in LinesWith(lines, markerStart(id)) :
    \A j \in LinesWith(lines, markerEnd(id)) : j < i

\* C15: removeMarkers, with either flag, leaves the target file as it is
\* when the owner's region is not found (no marker, one of the two markers
\* only, or the end marker above the start marker).
C15_RemoveWithoutRegionIsNoOp ==
  [][\A w \in WatcherNames :
       ( /\ last'.op \in {"remove(true)", "remove(false)"}
         /\ last'.w = w
         /\ RegionMissing(stylesFile, MarkerIdOf(w)) )
       => stylesFile' = stylesFile]_vars

\* removeMarkers of w1 has run on a file whose end marker of w1 is above its
\* start marker, and both are still there
C15_Witness ==
  /\ last.op \in {"remove(true)", "remove(false)"}
  /\ last.w = "w1"
  /\ HasMarkerOf(stylesFile, MarkerIdOf("w1"))
  /\ LinesWith(stylesFile, markerStart(MarkerIdOf("w1"))) # {}
  /\ LinesWith(stylesFile, markerEnd(MarkerIdOf("w1"))) # {}
  /\ RegionMissing(stylesFile, MarkerIdOf("w1"))

\* ------------------------------------------------------------------------
\* Properties of updateStylesFile
\* ------------------------------------------------------------------------

\* the one line of the file that includes the text, for a file with OnePair
TheLineWith(lines, text) ==
  lines[CHOOSE i \in LinesWith(lines, text) : TRUE]

\* C16: a synchronize on a file with one well-formed region of the owner
\* leaves exactly the newly rendered body between the markers (lines of the
\* old body that are not rendered anew are gone), keeps both marker lines as
\* they were, and the owner still has one start and one end marker.
C16_MarkerReuse ==
  [][\A w \in WatcherNames :
       ( /\ last' = Op("synchronize", w)
         /\ OnePair(stylesFile, MarkerIdOf(w)) )
       => /\ OnePair(stylesFile', MarkerIdOf(w))
          /\ RegionBody(stylesFile', MarkerIdOf(w))
               = newImportsContent(DiscoverCache(fs, options[w]))
          /\ TheLineWith(stylesFile', markerStart(MarkerIdOf(w)))
               = TheLineWith(stylesFile, markerStart(MarkerIdOf(w)))
          /\ TheLineWith(stylesFile', markerEnd(MarkerIdOf(w)))
               = TheLineWith(stylesFile, markerEnd(MarkerIdOf(w)))]_vars

\* the first operation was a synchronize of w1 on a populated tree; its
\* region is not at the insertion line, so it was in the file before, and it
\* now holds the rendered import instead of the old one
C16_Witness ==
  /\ last = Op("synchronize", "w1")
  /\ opsLeft = MaxOps - 1
  /\ fs = FsUniverse
  /\ OnePair(stylesFile, MarkerIdOf("w1"))
  /\ ScanIndex(stylesFile, markerStart(MarkerIdOf("w1"))) > options["w1"].line
  /\ RegionBody(stylesFile, MarkerIdOf("w1"))
       = << <<GroupHeader("base")>>, <<ImportStatement("p")>> >>
  /\ ~HasLine(stylesFile, "@import \"old\";")

\* C17: when no region of the owner is found, a synchronize inserts the
\* start marker, the body and the end marker at line index
\* clamp(line - 1, 0, lineCount), for every integer line (below 1 and
\* beyond the end of the file included), the lines that were there staying
\* in order above and below the block.
C17_InsertionIsClamped ==
  [][\A w \in WatcherNames :
       ( /\ last' = Op("synchronize", w)
         /\ RegionMissing(stylesFile, MarkerIdOf(w)) )
       => LET lineCount == Len(stylesFile)
              at == Max(0, Min(options[w].line - 1, lineCount))
          IN stylesFile'
               = WriteLines(
                   SubSeq(stylesFile, 1, at)
                   \o <<<<markerStart(MarkerIdOf(w))>>>>
                   \o newImportsContent(DiscoverCache(fs, options[w]))
                   \o <<<<markerEnd(MarkerIdOf(w))>>>>
                   \o SubSeq(stylesFile, at + 1, lineCount))]_vars

\* C18: the region a synchronize or a removeMarkers(true) works on runs from
\* the first line with the owner's start marker to the first line after it
\* with the owner's end marker, also when the file holds several start or
\* end marker lines of the owner: the synchronize replaces, and the remove
\* deletes, what lies between these two lines.
C18_LocateFirstMarkers ==
  [][\A w \in WatcherNames :
       LET id == MarkerIdOf(w)
           starts == LinesWith(stylesFile, markerStart(id))
           first == CHOOSE i \in starts : \A k \in starts : i <= k
           ends == { j \in LinesWith(stylesFile, markerEnd(id)) : j > first }
           firstEnd == CHOOSE j \in ends : \A k \in ends : j <= k
       IN ( /\ last'.w = w
            /\ last'.op \in {"synchronize", "remove(true)"}
            /\ starts # {}
            /\ ends # {} )
          => stylesFile'
               = IF last'.op = "synchronize"
                 THEN WriteLines(
                        SubSeq(stylesFile, 1, first)
                        \o newImportsContent(DiscoverCache(fs, options[w]))
                        \o SubSeq(stylesFile, firstEnd, Len(stylesFile)))
                 ELSE WriteLines(
                        SubSeq(stylesFile, 1, first - 1)
                        \o SubSeq(stylesFile, firstEnd + 1,
                                  Len(stylesFile)))]_vars

\* the file holds a start marker of the owner and no end marker, or an end
\* marker and no start marker
HalfRegion(lines, id) ==
  (LinesWith(lines, markerStart(id)) = {})
    # (LinesWith(lines, markerEnd(id)) = {})

\* the block of a new region: start marker, rendered body, end marker
NewRegion(w) ==
  <<<<markerStart(MarkerIdOf(w))>>>>
  \o newImportsContent(DiscoverCache(fs, options[w]))
  \o <<<<markerEnd(MarkerIdOf(w))>>>>

\* C19 as stated: with only one of the owner's two markers in the file, a
\* synchronize inserts one new complete region at the insertion line and
\* leaves the malformed marker line and every other line of the file in
\* place, unchanged.
C19_HalfRegion_AsStated ==
  [][\A w \in WatcherNames :
       ( /\ last' = Op("synchronize", w)
         /\ options[w].line >= 1
         /\ HalfRegion(stylesFile, MarkerIdOf(w)) )
       => LET at == Min(options[w].line - 1, Len(stylesFile))
          IN stylesFile' = SubSeq(stylesFile, 1, at)
                           \o NewRegion(w)
                           \o SubSeq(stylesFile, at + 1, Len(stylesFile))]_vars

\* C19 (amended): with only one of the owner's two markers in the file, a
\* synchronize inserts one new complete region between the lines of the
\* file (at line index min(line - 1, lineCount) when line >= 1); the
\* malformed marker line and every other non-blank line stay, unchanged and
\* in order, above and below the new region.
C19_HalfRegion ==
  [][\A w \in WatcherNames :
       ( /\ last' = Op("synchronize", w)
         /\ HalfRegion(stylesFile, MarkerIdOf(w)) )
       => \E at \in 0..Len(stylesFile) :
            /\ options[w].line >= 1
                 => at = Min(options[w].line - 1, Len(stylesFile))
            /\ NonBlank(stylesFile')
                 = NonBlank(SubSeq(stylesFile, 1, at))
                   \o NonBlank(NewRegion(w))
                   \o NonBlank(SubSeq(stylesFile, at + 1,
                                      Len(stylesFile)))]_vars

\* the first operation was a synchronize of w1 on a file with a rule and a
\* start marker of w1 without end marker: the file now holds the new region
\* at its top, the old start marker and the rule
C19_Witness ==
  /\ last = Op("synchronize", "w1")
  /\ opsLeft = MaxOps - 1
  /\ options["w1"].line = 1
  /\ Cardinality(LinesWith(stylesFile, markerStart(MarkerIdOf("w1")))) = 2
  /\ Cardinality(LinesWith(stylesFile, markerEnd(MarkerIdOf("w1")))) = 1
  /\ SubSeq(stylesFile, 1, Len(NewRegion("w1"))) = NewRegion("w1")
  /\ HasLine(stylesFile, "body { }")

\* ------------------------------------------------------------------------
\* Properties of the normalisation
\* ------------------------------------------------------------------------

\* the operation of the step writes the file: a synchronize always does, a
\* removeMarkers when it finds the region
WritingOpBy(w) ==
  /\ TextOpBy(w)
  /\ last'.op = "synchronize" \/ MarkersFound(stylesFile, MarkerIdOf(w))

\* n consecutive lines of the file are blank
HasBlankRun(lines, n) ==
  \E i \in 1..(Len(lines) - n + 1) :
    \A k \in i..(i + n - 1) : lines[k] = EmptyLine

\* the content holds n consecutive newline characters
HasNewlineRun(content, n) ==
  \E i \in 1..(Len(content) - n + 1) :
    \A k \in i..(i + n - 1) : content[k] = NL

C21_DebounceCoalesces ==
  /\ [][\A w \in WatcherNames :
          last' = Op("debouncedReactiveUpdate", w)
          => clock[w].idle >= DebounceDelay]_vars
  /\ [](\A w \in WatcherNames :
          /\ clock[w].passes <= 1
          /\ (clock[w].calls > 0 /\ clock[w].passes = 0)
             => (timer[w] /\ clock[w].age = clock[w].idle))

\* the pass of w1 has run for a burst of two or more change events
C21_Witness ==
  /\ last = Op("debouncedReactiveUpdate", "w1")
  /\ clock["w1"].calls >= 2
  /\ clock["w1"].passes = 1
  /\ ~timer["w1"]

\* ------------------------------------------------------------------------
\* Properties of the error handling
\* ------------------------------------------------------------------------

\* an update pass of the watcher has made the step
SyncStepBy(w) ==
  \/ last' = Op("initialUpdate", w)
  \/ last' = Op("debouncedReactiveUpdate", w)

\* C22: an update pass made while the target file does not exist writes
\* nothing, does not create the file and leaves the watcher alive (its
\* handle and its subscription stay); a pass made once the file exists is
\* a normal one: afterwards the file holds the owner's region with the
\* rendering of the owner's discovery as its body.
C22_MissingTargetFile ==
  [][\A w \in WatcherNames :
       SyncStepBy(w) =>
         IF stylesFile = NoFile
         THEN /\ stylesFile' = NoFile
              /\ running'[w] /\ ~closed'[w]
         ELSE /\ MarkersFound(stylesFile', MarkerIdOf(w))
              /\ NonBlank(RegionBody(stylesFile', MarkerIdOf(w)))
                   = NonBlank(newImportsContent(
                                _currentGroupedImportsCache'[w]))]_vars

\* the file was missing when w1 was constructed and at its change event;
\* created later, it got w1's region with an import by a debounced pass
C22_Witness ==
  /\ last = Op("debouncedReactiveUpdate", "w1")
  /\ MarkersFound(stylesFile, MarkerIdOf("w1"))
  /\ HasLine(stylesFile, ImportStatement("p"))

\* C23: a failure during discovery or rewriting in _initialUpdate, the
\* debounced update or _getGeneratedImportPaths is caught inside the
\* watcher: the call never ends with an exception thrown to its caller, and
\* a call whose discovery fails leaves the target file as it was.
C23_ErrorsAreContained ==
  [][\A w \in WatcherNames :
       /\ "error" \notin DOMAIN last'
       /\ (/\ last'.w = w
           /\ last'.op \in {"initialUpdate", "getGeneratedImportPaths",
                            "debouncedReactiveUpdate"}
           /\ walkThrows(fs, options[w], options[w].watchDir))
          => stylesFile' = stylesFile]_vars

\* C24: creating a watcher whose target file is missing, or whose watchDir
\* lies outside rootDir, reports an error to the caller and starts nothing:
\* a call of scssImportWatcher that leaves a handle and a subscription to
\* change events was made with an existing target file and a watchDir under
\* rootDir.
C24_ConfigurationErrorsRejected ==
  [][\A w \in WatcherNames :
       (/\ last'.op = "scssImportWatcher" /\ last'.w = w
        /\ "error" \notin DOMAIN last'
        /\ running'[w] /\ options'[w] # NoOptions /\ ~closed'[w])
       => (stylesFile # NoFile /\ ~OutsideRoot(options'[w].watchDir))]_vars
\* ------------------------------------------------------------------------
\* Properties of the discovery and of the rendering
\* ------------------------------------------------------------------------

\* the import statements a cache holds
Statements(cache) ==
  UNION { { cache[i].imports[j] : j \in 1..Len(cache[i].imports) } :
            i \in 1..Len(cache) }

\* the watcher has just made a discovery
Discovered(w) ==
  /\ last.w = w
  /\ last.op \in {"initialUpdate", "getGeneratedImportPaths"}
  /\ "error" \notin DOMAIN last

\* the import statement the code makes for the partial
StatementOf(w, f) == ImportStatement(Text(importPath(options[w], f)))

\* C25: the target file is never discovered by its own watcher: when the
\* target file is a partial under watchDir, no discovered import is the
\* import of the target file.
C25_TargetNeverDiscovered ==
  \A w \in WatcherNames :
    (Discovered(w) /\ stylesFilePath \in fs)
    => ImportStatement("s") \notin Statements(_currentGroupedImportsCache[w])

\* C26: the identifier of every discovered partial is its path with "/"
\* separators, without the suffix .scss and without one leading "_" of the
\* final segment only; the file _.scss is skipped and gives no import.
C26_ImportIdDerivation ==
  LET DerivedIds == {"a", "b", "a b", "_x/c", "b/q", "bd/r", "1/c", "s"}
  IN \A w \in WatcherNames :
       Discovered(w)
       => Statements(_currentGroupedImportsCache[w])
            \subseteq { ImportStatement(id) : id \in DerivedIds }

\* C27: for an empty target file, line 1 and a watched directory that holds
\* exactly _a.scss and _b.scss, the initial update writes the start marker,
\* the two imports and the end marker, and no other non-blank line.
C27_FreshInsertion ==
  (/\ last = Op("initialUpdate", "w1")
   /\ options["w1"].excludePaths = {}
   /\ fs = { File(<<"a">>, <<"_", "a", ".scss">>),
             File(<<"a">>, <<"_", "b", ".scss">>) })
  => NonBlank(stylesFile)
       = << <<markerStart("a")>>, <<ImportStatement("a")>>,
            <<ImportStatement("b")>>, <<markerEnd("a")>> >>

\* C28: in the rendered body every group other than the sentinel one has
\* one heading line, and the sentinel group of the files directly in
\* watchDir has none.
C28_GroupHeadings ==
  \A w \in WatcherNames :
    last = Op("initialUpdate", w)
    => /\ \A i \in 1..Len(_currentGroupedImportsCache[w]) :
            _currentGroupedImportsCache[w][i].key # "base"
            => Cardinality(
                 { n \in 1..Len(stylesFile) :
                     stylesFile[n] = <<GroupHeader(
                       _currentGroupedImportsCache[w][i].key)>> }) = 1
       /\ ~HasLine(stylesFile, GroupHeader("base"))

\* the line of the file that holds the import of the partial
LineOf(w, f) ==
  CHOOSE n \in 1..Len(stylesFile) : stylesFile[n] = <<StatementOf(w, f)>>

\* C29: the rendered body lists the sentinel group first, the other groups
\* in ascending lexicographic order of group key and, inside a group, the
\* imports in ascending lexicographic order of their identifiers.
C29_DeterministicOrdering ==
  \A w \in WatcherNames :
    last = Op("initialUpdate", w)
    => \A f, g \in readDirRecursive(fs, options[w], options[w].watchDir) :
         LET a == groupKey(options[w], f)
             b == groupKey(options[w], g)
             GroupBefore ==
               /\ a # b
               /\ \/ a = "base"
                  \/ /\ b # "base"
                     /\ CharsLess(SegmentChars(a), SegmentChars(b))
             ImportBefore ==
               /\ a = b
               /\ CharsLess(PathChars(importPath(options[w], f)),
                            PathChars(importPath(options[w], g)))
         IN (GroupBefore \/ ImportBefore) => LineOf(w, f) < LineOf(w, g)

\* C30: discovery visits a directory if and only if its path is neither
\* equal to nor a descendant of an excluded path: the partials discovered
\* are those of the directories under watchDir of which no excluded path is
\* a prefix on a separator boundary.
C30_DiscoveryExclusion ==
  \A w \in WatcherNames :
    Discovered(w)
    => \A f \in { g \in fs : IsPartial(g) } :
         (StatementOf(w, f) \in Statements(_currentGroupedImportsCache[w]))
         <=> (/\ IsPrefix(options[w].watchDir, f.dir)
              /\ ~\E ex \in options[w].excludePaths : IsPrefix(ex, f.dir))
\* ------------------------------------------------------------------------
\* Properties of sequences of text operations
\* ------------------------------------------------------------------------

\* the set of the lines of a sequence
SetOf(lines) == { lines[i] : i \in 1..Len(lines) }

\* the file after removeMarkers(false) and then _initialUpdate of the watcher
RemovedAndSynchronized(w) ==
  updateStylesFile(
    removeMarkers(stylesFile, options[w], FALSE), options[w],
    generateImports(_isActive[w], _currentGroupedImportsCache[w],
                    fs, options[w]))

\* C31: on a file that holds one well-formed region of the owner, written
\* from the discovered set, removeMarkers(false) followed by synchronize
\* with the same discovered set and the same insertion line gives a region
\* of the owner whose set of body lines is that of the region before.
C31_RoundTrip ==
  \A w \in WatcherNames :
    (/\ OnePair(stylesFile, MarkerIdOf(w))
     /\ RegionBody(stylesFile, MarkerIdOf(w))
          = newImportsContent(
              generateImports(_isActive[w], _currentGroupedImportsCache[w],
                              fs, options[w])))
    => /\ MarkersFound(RemovedAndSynchronized(w), MarkerIdOf(w))
       /\ SetOf(RegionBody(RemovedAndSynchronized(w), MarkerIdOf(w)))
            = SetOf(RegionBody(stylesFile, MarkerIdOf(w)))

\* w1 has synchronized after its removeMarkers(false): its region is back
\* and the import the removal left floating is in the file a second time
C31_Witness ==
  /\ last = Op("synchronize", "w1")
  /\ opsLeft = MaxOps - 2
  /\ OnePair(stylesFile, MarkerIdOf("w1"))
  /\ HasLine(RegionBody(stylesFile, MarkerIdOf("w1")), ImportStatement("p"))
  /\ Cardinality(LinesWith(stylesFile, ImportStatement("p"))) = 2
C33_FreshDiscoveryOnEveryCall ==
  [][\A w \in WatcherNames :
       last' = Op("getGeneratedImportPaths", w)
       => _currentGroupedImportsCache'[w] = DiscoverCache(fs, options[w])]_vars
\* C34: close() stops the subscription to the change events (no later
\* event of the tree calls the debounced update of the closed watcher) and
\* does not by itself change the target file: the content right after
\* close() is the content right before it.
C34_CloseLeavesFile ==
  /\ [][\A w \in WatcherNames :
          last' = Op("close", w) => (stylesFile' = stylesFile /\ closed'[w])]_vars
  /\ [][\A w \in WatcherNames :
          (closed[w] /\ last' = Op("fsChange", ""))
          => timer'[w] = timer[w]]_vars

\* w1 was closed with its region, markers and an import, still in the file
C34_Witness ==
  /\ last = Op("close", "w1")
  /\ closed["w1"]
  /\ OnePair(stylesFile, MarkerIdOf("w1"))
  /\ HasLine(RegionBody(stylesFile, MarkerIdOf("w1")), ImportStatement("p"))
\* the file after _initialUpdate of the watcher on the given lines
SynchronizedBy(lines, w) ==
  updateStylesFile(lines, options[w],
                   generateImports(_isActive[w], _currentGroupedImportsCache[w],
                                   fs, options[w]))

\* two running watchers with distinct owner ids whose regions, one start
\* and one end marker each, are in the file
BothRegionsExist(v, w) ==
  /\ running[v] /\ running[w]
  /\ MarkerIdOf(v) # MarkerIdOf(w)
  /\ OnePair(stylesFile, MarkerIdOf(v))
  /\ OnePair(stylesFile, MarkerIdOf(w))

\* C35: rewrites by different owners commute: for two watchers with distinct
\* owner ids whose well-formed regions are both in the file, synchronize of
\* the one and then of the other gives the same file as the other order.
C35_RewritesCommute ==
  \A v, w \in WatcherNames :
    BothRegionsExist(v, w)
    => SynchronizedBy(SynchronizedBy(stylesFile, v), w)
         = SynchronizedBy(SynchronizedBy(stylesFile, w), v)

\* C36: regions of distinct owners never nest or overlap: no marker line of
\* one owner lies strictly between the start and the end marker of another
\* owner.
C36_RegionsNeverNest ==
  \A v, w \in WatcherNames :
    (/\ running[v] /\ running[w]
     /\ MarkerIdOf(v) # MarkerIdOf(w)
     /\ MarkersFound(stylesFile, MarkerIdOf(w)))
    => ~HasMarkerOf(RegionBody(stylesFile, MarkerIdOf(w)), MarkerIdOf(v))

\* ------------------------------------------------------------------------
\* Specification of the front-end with external rewrites of watchers.json:
\* the watcher management flows, and handleExternalConfigChange() after the
\* configuration file was rewritten from outside with a valid configuration
\* and unchanged global settings
\* ------------------------------------------------------------------------

\* startWatchingConfigFile(): its first statement logs ${configPath}, the
\* const of the same function body that is declared further down; the read
\* is in the temporal dead zone and raises a ReferenceError in every call
startWatchingConfigFileThrows == TRUE

\* loadConfigs() on an existing file with valid content: watcherConfigs is
\* assigned from the file, then startWatchingConfigFile() is called inside
\* the try block; the catch block returns false
loadConfigs(fileConfigs) ==
  [cfgs |-> fileConfigs, ok |-> ~startWatchingConfigFileThrows]

\* for (const [name, { instance }] of watchers) instance.close();
\* watchers.clear(): the instances are closed, their markers stay
CloseAllInstances(st) ==
  [st EXCEPT !.closed = [w \in WatcherNames |-> st.closed[w] \/ st.run[w]],
             !.run = [w \in WatcherNames |-> FALSE]]

RECURSIVE InitializeAll(_, _)
\* for (const name in watcherConfigs) await loadAndInitializeWatcher(name),
\* from position i
InitializeAll(st, i) ==
  IF i > Len(st.cfgs) THEN st
  ELSE InitializeAll(loadAndInitializeWatcher(st, st.cfgs[i].name), i + 1)

\* handleExternalConfigChange() up to its return in line 520, the branch of
\* configLoadedSuccessfully = false: the previous watcherConfigs are restored
\* and written to watchers.json by _saveConfigsSync(), all instances are
\* closed and the watchers of the restored configuration are initialised.
\* The result holds the state of the front-end and, as saved, the content
\* of watchers.json at the end.  (The granular update below line 522 needs
\* loadConfigs() to return true, which it does for no file.)
handleExternalConfigChange(st, fileConfigs) ==
  [st |-> InitializeAll(CloseAllInstances(st), 1), saved |-> st.cfgs]

\* the step record of a run of the handler: written is what the external
\* writer put into watchers.json, saved is the content of watchers.json when
\* the handler ends
External(written, saved) ==
  [op |-> "handleExternalConfigChange", w |-> "",
   written |-> written, saved |-> saved]

\* the valid configurations an external writer can leave: one watcher
\* deleted, one watcher given another line or watchDir, or one watcher added
ExternalRewrites(cfgs) ==
  ( { SubSeq(cfgs, 1, i - 1) \o SubSeq(cfgs, i + 1, Len(cfgs)) :
        i \in 1..Len(cfgs) }
    \cup { [cfgs EXCEPT ![i].watchDir = watchDir, ![i].line = line] :
             i \in 1..Len(cfgs), watchDir \in WatchDirs, line \in 1..MaxLine }
    \cup { Append(cfgs, Config(name, watchDir, line, "", {})) :
             name \in { n \in WatcherNames : ConfigIndex(cfgs, n) = 0 },
             watchDir \in WatchDirs, line \in 1..MaxLine } )
  \ {cfgs}

\* watchers.json was rewritten with fileConfigs; the change event of the
\* configuration file runs handleExternalConfigChange().  Bound of the
\* model: the handler is only run while the target file is not longer than
\* MaxFileLines.
HandleExternalConfigChange(fileConfigs) ==
  LET result == handleExternalConfigChange(FlowState, fileConfigs)
  IN /\ Len(stylesFile) <= MaxFileLines
     /\ ~loadConfigs(fileConfigs).ok
     /\ watcherConfigs' = result.st.cfgs
     /\ stylesFile' = result.st.file
     /\ options' = result.st.opt
     /\ running' = result.st.run
     /\ _currentGroupedImportsCache' = result.st.cache
     /\ closed' = result.st.closed
     /\ last' = External(fileConfigs, result.saved)
     /\ UNCHANGED <<fs, _isActive, timer, opsLeft, clock>>

\* the flows of this specification configure the watchers on a directory
\* and on its sub-directory, at line 1
ExternalDirs == { <<"a">>, <<"a", "b">> }

NextExternal ==
  \/ \E name \in WatcherNames, watchDir \in ExternalDirs :
       CreateWatcherFlow(name, watchDir, 1)
  \/ \E name \in WatcherNames, watchDir \in ExternalDirs :
       EditWatcherFlow(name, watchDir, 1)
  \/ \E name \in WatcherNames : DeleteWatcherFlow(name)
  \/ \E fileConfigs \in ExternalRewrites(watcherConfigs) :
       HandleExternalConfigChange(fileConfigs)

SpecExternal == InitCli /\ [][NextExternal]_vars

\* the fields of the records the external writer sets by hand
WrittenFields(cfgs) ==
  [i \in 1..Len(cfgs) |->
     [name |-> cfgs[i].name, watchDir |-> cfgs[i].watchDir,
      line |-> cfgs[i].line, markerId |-> cfgs[i].markerId]]

MarkerLineCount(lines, id) ==
  Cardinality(LinesWith(lines, markerStart(id))
              \cup LinesWith(lines, markerEnd(id)))

\* the file after n consecutive _initialUpdate calls of the watcher, the
\* directory tree staying as it is
RECURSIVE SynchronizedTimes(_, _, _)
SynchronizedTimes(lines, w, n) ==
  IF n = 0 THEN lines
  ELSE SynchronizedBy(SynchronizedTimes(lines, w, n - 1), w)

\* the number of consecutive passes the growth property looks at
GrowthPasses == 3

\* C37: from a target file that holds a start marker of the owner and no
\* end marker (or an end marker and no start marker), consecutive
\* synchronize passes under one directory snapshot insert at most one new
\* region, and from the second pass on they change nothing: the file after
\* every later pass is the file after the first, and the number of the
\* owner's marker lines stays what it was after the first pass.
C37_BoundedGrowth ==
  \A w \in WatcherNames :
    HalfRegion(stylesFile, MarkerIdOf(w))
    => LET id == MarkerIdOf(w)
           first == SynchronizedTimes(stylesFile, w, 1)
       IN /\ MarkerLineCount(first, id)
               <= MarkerLineCount(stylesFile, id) + 2
          /\ \A n \in 2..GrowthPasses :
               /\ SynchronizedTimes(stylesFile, w, n) = first
               /\ MarkerLineCount(SynchronizedTimes(stylesFile, w, n), id)
                    = MarkerLineCount(first, id)
====
